---- MODULE Spec2Model ----
(***************************************************************************)
(* RT6D flasher: the programming session of the main flasher.              *)
(*                                                                         *)
(* Two control flows share one Flasher struct without synchronisation:     *)
(*   - the foreground flow startUpdate (connect attempts, then the wait    *)
(*     loop), modelled statement by statement through pc/attempt;          *)
(*   - the reader goroutine readData (checkTimeout, then one byte through  *)
(*     revDateOperation), one loop iteration per step.                     *)
(* The device is the environment: it may send any byte of DeviceBytes at   *)
(* any time the port is open, and it may stay silent for more than         *)
(* packetTimeout (the timeout step).                                       *)
(***************************************************************************)
EXTENDS Integers, Sequences, FiniteSets, TLC

\* ------------------------------------------------------------ constants

\* Size of one data block (f.sendcnt += 1024).
BlockSize == 1024

\* Number of blocks of the image in the model. The source image has 246
\* blocks (251904 bytes); the model keeps the block size and scales the count.
NumBlocks == 3

\* len(f.hex), the literal 251904 of the source, scaled with NumBlocks.
ImageSize == NumBlocks * BlockSize

\* f.maxRetries
maxRetries == 3

\* len(f.recvbuf) in the model. The source buffer holds 29 bytes; bytes past
\* the first are only counted, so the model scales the length.
RecvBufLen == 3

\* Response bytes the code switches on.
ACK == 6
NAK == 255
PRESENCE == 0
QUIET == 50

\* What the device may send: the four bytes the code names and one byte (0x41)
\* that falls in the default case of revDateOperation.
DeviceBytes == {PRESENCE, ACK, QUIET, NAK, 65}

\* The bytes the session gives no meaning to.
UnknownBytes == DeviceBytes \ {PRESENCE, ACK, NAK}

\* Observer caps (the counters below saturate here).
AckCap == 4
RetxCap == 4
OutCap == 2

Min(a, b) == IF a < b THEN a ELSE b

\* ------------------------------------------------------------ packets

\* The three 5-byte control sequences of the active variant.
sendConnect == [kind |-> "connect"]
sendUpdate == [kind |-> "update"]
sendEnd == [kind |-> "end"]

\* f.sendbuf[:1028]: 0x57, the two offset bytes, and the payload, named by the
\* image offset its 1024 bytes were copied from (-1: never filled).
DataPacket(buf) == [kind |-> "data", b1 |-> buf.b1, b2 |-> buf.b2, data |-> buf.data]

\* ------------------------------------------------------------ state

VARIABLES
    f,            \* the Flasher struct (the fields the session uses)
    pc,           \* position of the foreground flow (startUpdate / main)
    attempt,      \* connect sequences the foreground has written (position in the unrolled attempts)
    rpc,          \* position of the reader goroutine: "loop" or "closing"
    ev,           \* observer: the last step taken
    tx,           \* observer: the packets the last step put on the wire
    acks,         \* observer: ACK bytes received (saturates at AckCap)
    outstanding,  \* observer: data packets written since the last ACK byte was received
    nConnect,     \* observer: connect sequences put on the wire
    nonzeroSeen,  \* observer: a non-zero byte has been received
    lastData,     \* observer: image offset of the last data packet written (-1: none)
    wrote,        \* observer: the kinds of packet put on the wire so far
    owed,         \* observer: packets on the wire the device has not answered with a byte
    nRetx,        \* observer: consecutive rewrites of the block written last (saturates at RetxCap)
    sentData,     \* observer: the data packets put on the wire so far
    input,        \* the firmware file on disk and the program run on it
    ld,           \* initializeHex of the flasher: its position, the image f.hex, the decoder's locals
    hc,           \* the HexConverter of hex2bin: its position and fields
    pk,           \* the packet encoder: the variant, the cursor, the packet built last
    spi,          \* one commandReadSPIFlash or commandWriteSPIFlash call of an SPI tool
    job           \* one run of an SPI tool: main, and backupSPIFlash, dumpSPIFlash or restoreSPIFlash

session == <<f, pc, attempt, rpc, ev, tx, acks, outstanding, nConnect, nonzeroSeen, lastData, wrote, owed, nRetx, sentData>>

vars == <<f, pc, attempt, rpc, ev, tx, acks, outstanding, nConnect, nonzeroSeen, lastData, wrote, owed, nRetx, sentData,
          input, ld, hc, pk, spi, job>>

\* The Flasher after NewFlasher and initializeHex.
NewFlasher ==
    [ port |-> "nil",
      step |-> 0,
      recvcnt |-> 0,
      recvbuf0 |-> 0,
      sendcnt |-> 0,
      gWritebytes |-> 0,
      retryCount |-> 0,
      waitingForAck |-> FALSE,
      flgConnect |-> FALSE,
      sendbuf |-> [b1 |-> 0, b2 |-> 0, data |-> -1] ]

\* One call into the session code: the struct it works on, the packets it has
\* written so far, whether it stopped in the sleep before the final Close, and
\* whether it panicked.
Run(fl) == [f |-> fl, tx |-> <<>>, closing |-> FALSE, panic |-> FALSE]

\* ------------------------------------------------------------ the port

\* f.port.Write: bytes reach the wire only while the port is open (the error
\* of a write to a closed port is ignored by every caller but sendDataPacket,
\* which only logs it).
portWrite(r, pkt) ==
    IF r.f.port = "open" THEN [r EXCEPT !.tx = Append(@, pkt)] ELSE r

\* f.port.Close
portClose(r) == [r EXCEPT !.f.port = "closed"]

\* ------------------------------------------------------------ session code

clearRecvbuf(r) == [r EXCEPT !.f.recvbuf0 = 255, !.f.recvcnt = 0]

sendDataPacket(r) ==
    LET w == portWrite(r, DataPacket(r.f.sendbuf))
    IN  [w EXCEPT !.f.waitingForAck = TRUE, !.f.retryCount = 0]

\* Faulty variant of retryLastPacket: the retry writes the block again itself
\* instead of leaving the rewrite to the next ACK.
retryLastPacket_resend(r) ==
    IF r.f.retryCount < maxRetries
    THEN LET b == [r EXCEPT !.f.retryCount = @ + 1,
                            !.f.sendcnt = @ - BlockSize,
                            !.f.gWritebytes = @ - 1]
         IN  [portWrite(b, DataPacket(b.f.sendbuf)) EXCEPT !.f.waitingForAck = TRUE]
    ELSE [portClose(r) EXCEPT !.f.step = 0]

retryLastPacket(r) ==
    IF r.f.retryCount < maxRetries
    THEN [r EXCEPT !.f.retryCount = @ + 1,
                   !.f.sendcnt = @ - BlockSize,
                   !.f.gWritebytes = @ - 1,
                   !.f.waitingForAck = FALSE]
    ELSE [portClose(r) EXCEPT !.f.step = 0]

\* The timeout test; that more than packetTimeout has passed since
\* lastPacketTime is the environment's choice (see ReaderTimeout).
checkTimeout(r) ==
    IF r.f.waitingForAck THEN retryLastPacket(r) ELSE r

\* case 255 of revDateOperation
revNAK(r) ==
    IF r.f.step = 4 /\ r.f.sendcnt > 0
    THEN retryLastPacket(r)
    ELSE clearRecvbuf([portClose(r) EXCEPT !.f.step = 0])

\* Variant of the data branch of case 6 that moves the cursor on by two blocks.
revACKData_skip(r) ==
    LET c == r.f.sendcnt
        r1 == [r EXCEPT !.f.gWritebytes = @ + 1,
                        !.f.sendbuf.b1 = (c \div 256) % 256,
                        !.f.sendbuf.b2 = c % 256]
    IN  IF c < 0 \/ c + BlockSize > ImageSize
        THEN [r1 EXCEPT !.panic = TRUE]
        ELSE LET r2 == sendDataPacket([r1 EXCEPT !.f.sendbuf.data = c])
                 r3 == [r2 EXCEPT !.f.sendcnt = @ + 2 * BlockSize]
             IN  IF r3.f.sendcnt >= ImageSize
                 THEN [portWrite([r3 EXCEPT !.f.step = 5], sendEnd) EXCEPT !.closing = TRUE]
                 ELSE r3

\* The data branch of case 6 (f.step == 4): build the packet at the cursor,
\* send it, advance; at the image end send the end sequence and stop in the
\* sleep before Close. Reading f.hex outside its bounds panics.
revACKData(r) ==
    LET c == r.f.sendcnt
        r1 == [r EXCEPT !.f.gWritebytes = @ + 1,
                        !.f.sendbuf.b1 = (c \div 256) % 256,
                        !.f.sendbuf.b2 = c % 256]
    IN  IF c < 0 \/ c + BlockSize > ImageSize
        THEN [r1 EXCEPT !.panic = TRUE]
        ELSE LET r2 == sendDataPacket([r1 EXCEPT !.f.sendbuf.data = c])
                 r3 == [r2 EXCEPT !.f.sendcnt = @ + BlockSize]
             IN  IF r3.f.sendcnt >= ImageSize
                 THEN [portWrite([r3 EXCEPT !.f.step = 5], sendEnd) EXCEPT !.closing = TRUE]
                 ELSE r3

\* case 6 of revDateOperation
revACK(r) ==
    LET r0 == [r EXCEPT !.f.recvcnt = 0, !.f.waitingForAck = FALSE, !.f.retryCount = 0]
    IN  IF r0.f.step < 3
        THEN portWrite([r0 EXCEPT !.f.step = @ + 1], sendConnect)
        ELSE IF r0.f.step = 3
        THEN [portWrite(r0, sendUpdate) EXCEPT !.f.step = 4]
        ELSE IF r0.f.step = 4
        THEN revACKData(r0)
        ELSE r0

revDateOperation(r) ==
    IF r.f.recvcnt # 1
    THEN r
    ELSE CASE r.f.recvbuf0 = QUIET -> r
           [] r.f.recvbuf0 = PRESENCE -> [r EXCEPT !.f.recvcnt = 0]
           [] r.f.recvbuf0 = NAK -> revNAK(r)
           [] r.f.recvbuf0 = ACK -> revACK(r)
           [] OTHER -> [r EXCEPT !.f.recvcnt = 0]

\* Faulty variant of readData: a presence byte is taken for a response of the
\* device.
readData_presenceResponds(r, b) ==
    IF r.f.recvcnt < RecvBufLen
    THEN LET s == [r EXCEPT !.f.recvbuf0 = IF r.f.recvcnt = 0 THEN b ELSE @,
                            !.f.recvcnt = @ + 1]
         IN  IF s.f.recvbuf0 = 0
             THEN [s EXCEPT !.f.sendcnt = 0, !.f.flgConnect = FALSE]
             ELSE revDateOperation([s EXCEPT !.f.flgConnect = FALSE])
    ELSE r

\* The body of readData's loop after Read returned the byte b.
readData(r, b) ==
    IF r.f.recvcnt < RecvBufLen
    THEN LET s == [r EXCEPT !.f.recvbuf0 = IF r.f.recvcnt = 0 THEN b ELSE @,
                            !.f.recvcnt = @ + 1]
         IN  IF s.f.recvbuf0 = 0
             THEN [s EXCEPT !.f.sendcnt = 0, !.f.flgConnect = TRUE]
             ELSE revDateOperation([s EXCEPT !.f.flgConnect = FALSE])
    ELSE r

\* ------------------------------------------------------------ observers

IsData(p) == p.kind = "data"

DataIn(s) == SelectSeq(s, IsData)

IsConnect(p) == p.kind = "connect"

\* The observers after a step e that ran r.
Observe(e, r) ==
    LET d == DataIn(r.tx)
        gotAck == e = <<"rx", ACK>>
    IN  /\ ev' = e
        /\ tx' = r.tx
        /\ acks' = IF gotAck THEN Min(acks + 1, AckCap) ELSE acks
        /\ outstanding' = Min((IF gotAck THEN 0 ELSE outstanding) + Len(d), OutCap)
        /\ nConnect' = nConnect + Len(SelectSeq(r.tx, IsConnect))
        /\ nonzeroSeen' = (nonzeroSeen \/ (e[1] = "rx" /\ e[2] # 0))
        /\ lastData' = IF d = <<>> THEN lastData ELSE d[Len(d)].data
        /\ wrote' = wrote \cup {r.tx[i].kind : i \in 1..Len(r.tx)}
        /\ owed' = (IF e[1] = "rx" /\ owed > 0 THEN owed - 1 ELSE owed) + Len(r.tx)
        /\ nRetx' = IF d = <<>> THEN nRetx
                    ELSE IF d[1].data = lastData THEN Min(nRetx + 1, RetxCap)
                    ELSE 0
        /\ sentData' = sentData \cup {d[i] : i \in 1..Len(d)}
        /\ UNCHANGED <<input, ld, hc, pk, spi, job>>

\* ------------------------------------------------------------ foreground

Alive == pc \in {"connect", "check", "retry", "wait"}

\* serial.Open and the four assignments before the reader is started; a port
\* that cannot be opened makes startUpdate return the error at once.
FgOpen ==
    /\ pc = "open"
    /\ \/ /\ f' = [f EXCEPT !.port = "open", !.gWritebytes = 0, !.step = 1,
                            !.sendcnt = 0, !.flgConnect = TRUE]
          /\ pc' = "connect"
          /\ Observe(<<"fg", 0>>, Run(f'))
       \/ /\ pc' = "exit1"
          /\ f' = f
          /\ Observe(<<"fg", 0>>, Run(f))
    /\ UNCHANGED <<attempt, rpc>>

\* The first, unconditional connect sequence.
FgConnect ==
    /\ pc = "connect"
    /\ LET r == portWrite(Run(f), sendConnect)
       IN  /\ f' = r.f
           /\ Observe(<<"fg", 0>>, r)
    /\ pc' = "check"
    /\ attempt' = 1
    /\ UNCHANGED rpc

\* One of the five reads of f.flgConnect: the three that guard another
\* attempt, and the last, which guards the failure return.
FgCheck ==
    /\ pc = "check"
    /\ IF f.flgConnect
       THEN IF attempt < 4
            THEN /\ pc' = "retry"
                 /\ f' = f
                 /\ Observe(<<"fg", 0>>, Run(f))
            ELSE LET r == portClose(Run(f))
                 IN  /\ pc' = "exit1"
                     /\ f' = r.f
                     /\ Observe(<<"fg", 0>>, r)
       ELSE /\ pc' = IF attempt < 4 THEN "check" ELSE "wait"
            /\ f' = f
            /\ Observe(<<"fg", 0>>, Run(f))
    /\ attempt' = IF ~f.flgConnect /\ attempt < 4 THEN attempt + 1 ELSE attempt
    /\ UNCHANGED rpc

\* The body of a guarded attempt: f.sendcnt = 0, then the connect sequence.
FgRetry ==
    /\ pc = "retry"
    /\ LET r == portWrite(Run([f EXCEPT !.sendcnt = 0]), sendConnect)
       IN  /\ f' = r.f
           /\ Observe(<<"fg", 0>>, r)
    /\ pc' = "check"
    /\ attempt' = attempt + 1
    /\ UNCHANGED rpc

\* The wait loop ends when f.step >= 5 (f.port is never set to nil);
\* startUpdate returns nil and main exits with status 0.
FgWait ==
    /\ pc = "wait"
    /\ ~(f.step < 5 /\ f.port # "nil")
    /\ pc' = "exit0"
    /\ f' = f
    /\ Observe(<<"fg", 0>>, Run(f))
    /\ UNCHANGED <<attempt, rpc>>

\* ------------------------------------------------------------ reader

\* What a reader step leaves behind.
ReaderDone(e, r) ==
    /\ f' = r.f
    /\ rpc' = IF r.closing THEN "closing" ELSE "loop"
    /\ pc' = IF r.panic THEN "crash" ELSE pc
    /\ Observe(e, r)
    /\ UNCHANGED attempt

\* checkTimeout finds the ACK overdue.
ReaderTimeout ==
    /\ Alive
    /\ rpc = "loop"
    /\ f.waitingForAck
    /\ ReaderDone(<<"timeout", 0>>, checkTimeout(Run(f)))

\* Read returns one byte.
ReaderByte(b) ==
    /\ Alive
    /\ rpc = "loop"
    /\ f.port = "open"
    /\ ReaderDone(<<"rx", b>>, readData(Run(f), b))

\* The Close that follows the end sequence and its sleep.
ReaderClose ==
    /\ Alive
    /\ rpc = "closing"
    /\ ReaderDone(<<"close", 0>>, portClose(Run(f)))

\* One more turn of the loop after the port was closed: f.port is not nil, so
\* the loop condition holds, checkTimeout is called and finds nothing overdue,
\* and Read on the closed port returns an error.
ReaderClosedRead ==
    /\ Alive
    /\ rpc = "loop"
    /\ f.port = "closed"
    /\ ReaderDone(<<"readerr", 0>>, Run(f))

\* ------------------------------------------------------------ specification

\* The session before startUpdate.
InitSession ==
    /\ f = NewFlasher
    /\ pc = "open"
    /\ attempt = 0
    /\ rpc = "loop"
    /\ ev = <<"init", 0>>
    /\ tx = <<>>
    /\ acks = 0
    /\ outstanding = 0
    /\ nConnect = 0
    /\ nonzeroSeen = FALSE
    /\ lastData = -1
    /\ wrote = {}
    /\ owed = 0
    /\ nRetx = 0
    /\ sentData = {}

\* The session of the flasher: the image is loaded, the other programs of the
\* repository are not running.
Init ==
    /\ InitSession
    /\ input = "none"
    /\ ld = "none"
    /\ hc = "none"
    /\ pk = "none"
    /\ spi = "none"
    /\ job = "none"

Foreground == FgOpen \/ FgConnect \/ FgCheck \/ FgRetry \/ FgWait

Next ==
    \/ FgOpen
    \/ FgConnect
    \/ FgCheck
    \/ FgRetry
    \/ FgWait
    \/ ReaderTimeout
    \/ \E b \in DeviceBytes : ReaderByte(b)
    \/ ReaderClose
    \/ ReaderClosedRead

Spec == Init /\ [][Next]_vars

\* The session under the scheduling the runtime gives: the foreground flow and
\* the reader goroutine both keep running, and while an ACK is awaited time
\* passes, so the timeout strikes unless a byte arrives first. The device is
\* not obliged to send anything.
SpecLive ==
    /\ Init
    /\ [][Next]_vars
    /\ WF_vars(Foreground)
    /\ WF_vars(ReaderTimeout)
    /\ WF_vars(ReaderClose)
    /\ WF_vars(ReaderClosedRead)

\* The device acknowledges everything: it answers each packet on the wire with
\* one ACK, sends nothing else, and is never late.
NextAck ==
    \/ FgOpen
    \/ FgConnect
    \/ FgCheck
    \/ FgRetry
    \/ FgWait
    \/ (owed > 0 /\ ReaderByte(ACK))
    \/ ReaderClose

SpecAck == Init /\ [][NextAck]_vars

\* The device acknowledges the handshake and then rejects or ignores every data
\* packet: it answers with ACK until the first data packet is written, and
\* from then on answers a data packet the session waits on with NAK, or lets
\* the wait run into the timeout. (The wait loop of the foreground never ends
\* here.)
NextNak ==
    \/ FgOpen
    \/ FgConnect
    \/ FgCheck
    \/ FgRetry
    \/ (lastData = -1 /\ owed > 0 /\ ReaderByte(ACK))
    \/ (lastData >= 0 /\ owed > 0 /\ f.waitingForAck /\ ReaderByte(NAK))
    \/ (lastData >= 0 /\ ReaderTimeout)

SpecNak == Init /\ [][NextNak]_vars

\* ------------------------------------------------------------ firmware text

\* A file is a sequence of bytes; text is ASCII (':' is 58, '\n' is 10).

\* The base address the flasher subtracts (0x08002800).
baseAddress == 134227968

\* The offset the converter subtracts, and what one extended-address record
\* adds to the offsets it computes.
legacyBase == 10240
legacyStep == 65536

\* The fill of f.hex (flasher) and of h.hex (converter).
FlasherFill == 255
ConverterFill == 0

\* An image is kept as the bytes stored so far; every other byte has the fill.
HexAt(h, i, fill) == IF i \in DOMAIN h THEN h[i] ELSE fill

Store(h, a, v) == [i \in (DOMAIN h) \cup {a} |-> IF i = a THEN v ELSE h[i]]

\* strings.TrimSpace on ASCII text.
IsSpace(c) == c \in {9, 10, 11, 12, 13, 32}

RECURSIVE TrimLeft(_)
TrimLeft(s) == IF s # <<>> /\ IsSpace(Head(s)) THEN TrimLeft(Tail(s)) ELSE s

RECURSIVE TrimRight(_)
TrimRight(s) ==
    IF s # <<>> /\ IsSpace(s[Len(s)]) THEN TrimRight(SubSeq(s, 1, Len(s) - 1)) ELSE s

TrimSpace(s) == TrimRight(TrimLeft(s))

\* The tokens of bufio.Scanner with the default split function ScanLines:
\* the text between newlines, one trailing '\r' dropped, and the rest of the
\* file after the last newline when it is not empty.
DropCR(s) == IF s # <<>> /\ s[Len(s)] = 13 THEN SubSeq(s, 1, Len(s) - 1) ELSE s

\* The position of the first newline at or after start, 0 when there is none.
NextNewline(content, start) ==
    LET S == {i \in start..Len(content) : content[i] = 10}
    IN  IF S = {} THEN 0 ELSE CHOOSE i \in S : \A j \in S : i <= j

RECURSIVE ScanLinesFrom(_, _)
ScanLinesFrom(content, start) ==
    LET nl == NextNewline(content, start)
    IN  IF nl = 0
        THEN IF start > Len(content) THEN <<>> ELSE <<DropCR(SubSeq(content, start, Len(content)))>>
        ELSE <<DropCR(SubSeq(content, start, nl - 1))>> \o ScanLinesFrom(content, nl + 1)

ScanLines(content) == ScanLinesFrom(content, 1)

\* The value of one hexadecimal digit, -1 for any other character.
DigitVal(c) ==
    IF c \in 48..57 THEN c - 48
    ELSE IF c \in 65..70 THEN c - 55
    ELSE IF c \in 97..102 THEN c - 87
    ELSE -1

RECURSIVE parseDigits(_, _)
parseDigits(s, acc) ==
    IF s = <<>> THEN acc
    ELSE IF DigitVal(Head(s)) < 0 THEN -1
    ELSE parseDigits(Tail(s), acc * 16 + DigitVal(Head(s)))

\* strconv.ParseInt(s, 16, 32) for the at most four characters it is given:
\* an optional sign, then at least one hexadecimal digit and nothing else.
ParseInt(s) ==
    LET signed == s # <<>> /\ s[1] \in {43, 45}
        body == IF signed THEN Tail(s) ELSE s
        v == IF body = <<>> THEN -1 ELSE parseDigits(body, 0)
    IN  IF v < 0 THEN [err |-> TRUE, v |-> 0]
        ELSE [err |-> FALSE, v |-> IF s[1] = 45 THEN 0 - v ELSE v]

\* ------------------------------------------------------------ flasher: Intel HEX

\* Faulty variant of dataBytes: the slice of a data byte is one character
\* short, so only the high digit of each byte is parsed.
RECURSIVE dataBytes_oneDigit(_, _, _, _, _)
dataBytes_oneDigit(h, record, targetBase, length, i) ==
    IF i >= length \/ 9 + i * 2 + 1 >= Len(record)
    THEN [ok |-> TRUE, hex |-> h]
    ELSE LET dataByte == ParseInt(SubSeq(record, 10 + 2 * i, 10 + 2 * i))
             targetAddr == targetBase + i
         IN  IF dataByte.err
             THEN [ok |-> FALSE, hex |-> h]
             ELSE dataBytes_oneDigit(IF targetAddr >= 0 /\ targetAddr < ImageSize
                                     THEN Store(h, targetAddr, dataByte.v % 256)
                                     ELSE h,
                                     record, targetBase, length, i + 1)

\* Faulty variant of dataBytes: the loop runs to i <= length, one byte too
\* far, and takes the checksum of the record for a data byte.
RECURSIVE dataBytes_inclusive(_, _, _, _, _)
dataBytes_inclusive(h, record, targetBase, length, i) ==
    IF i > length \/ 9 + i * 2 + 1 >= Len(record)
    THEN [ok |-> TRUE, hex |-> h]
    ELSE LET dataByte == ParseInt(SubSeq(record, 10 + 2 * i, 11 + 2 * i))
             targetAddr == targetBase + i
         IN  IF dataByte.err
             THEN [ok |-> FALSE, hex |-> h]
             ELSE dataBytes_inclusive(IF targetAddr >= 0 /\ targetAddr < ImageSize
                                      THEN Store(h, targetAddr, dataByte.v % 256)
                                      ELSE h,
                                      record, targetBase, length, i + 1)

\* The loop over the data bytes of a type-00 record.
RECURSIVE dataBytes(_, _, _, _, _)
dataBytes(h, record, targetBase, length, i) ==
    IF i >= length \/ 9 + i * 2 + 1 >= Len(record)
    THEN [ok |-> TRUE, hex |-> h]
    ELSE LET dataByte == ParseInt(SubSeq(record, 10 + 2 * i, 11 + 2 * i))
             targetAddr == targetBase + i
         IN  IF dataByte.err
             THEN [ok |-> FALSE, hex |-> h]
             ELSE dataBytes(IF targetAddr >= 0 /\ targetAddr < ImageSize
                            THEN Store(h, targetAddr, dataByte.v % 256)
                            ELSE h,
                            record, targetBase, length, i + 1)

\* Faulty variant of targetBaseOf: the record address is taken for the image
\* offset, the extended address and the base are not applied.
targetBaseOf_unmapped(extendedAddress, addr) == addr

\* The image offset of the first byte of a data record.
targetBaseOf(extendedAddress, addr) == extendedAddress + addr - baseAddress

\* processIntelHexRecord: the result, the image and the accumulator after it.
\* Slicing past the end of the record (record[9:13] of a type-04 record shorter
\* than 13 characters) panics.
processIntelHexRecord(h, extendedAddress, record) ==
    LET ret(ok, hx, ext) == [ok |-> ok, panic |-> FALSE, hex |-> hx, ext |-> ext]
        length == ParseInt(SubSeq(record, 2, 3))
        addr == ParseInt(SubSeq(record, 4, 7))
        recordType == ParseInt(SubSeq(record, 8, 9))
    IN  IF Len(record) < 11 THEN ret(TRUE, h, extendedAddress)
        ELSE IF length.err \/ addr.err \/ recordType.err THEN ret(FALSE, h, extendedAddress)
        ELSE IF recordType.v = 0
        THEN LET targetBase == targetBaseOf(extendedAddress, addr.v)
             IN  IF targetBase < 0 THEN ret(TRUE, h, extendedAddress)
                 ELSE LET d == dataBytes(h, record, targetBase, length.v, 0)
                      IN  ret(d.ok, d.hex, extendedAddress)
        ELSE IF recordType.v = 4
        THEN IF length.v # 2 THEN ret(FALSE, h, extendedAddress)
             ELSE IF Len(record) < 13
             THEN [ok |-> FALSE, panic |-> TRUE, hex |-> h, ext |-> extendedAddress]
             ELSE LET extAddr == ParseInt(SubSeq(record, 10, 13))
                  IN  IF extAddr.err THEN ret(FALSE, h, extendedAddress)
                      ELSE ret(TRUE, h, extAddr.v * 65536)
        ELSE ret(TRUE, h, extendedAddress)

\* The locals of loadStandardIntelHex over an image h; ret is "run" while the
\* scanner loop runs, then "true", "false" or "panic".
NewScan(h) == [hex |-> h, extendedAddress |-> 0, recordCount |-> 0, ret |-> "run"]

\* One iteration of the scanner loop, on the token text.
scanLine(l, text) ==
    LET line == TrimSpace(text)
    IN  IF Len(line) <= 1 \/ line[1] # 58 THEN l
        ELSE LET p == processIntelHexRecord(l.hex, l.extendedAddress, line)
             IN  IF p.panic THEN [l EXCEPT !.hex = p.hex, !.ret = "panic"]
                 ELSE IF ~p.ok THEN [l EXCEPT !.hex = p.hex, !.ret = "false"]
                 ELSE [l EXCEPT !.hex = p.hex,
                                !.extendedAddress = p.ext,
                                !.recordCount = @ + 1]

\* The return after the loop.
scanEnd(l) == [l EXCEPT !.ret = IF l.recordCount > 0 THEN "true" ELSE "false"]

RECURSIVE scanFrom(_, _, _)
scanFrom(l, lines, n) ==
    IF l.ret # "run" THEN l
    ELSE IF n > Len(lines) THEN scanEnd(l)
    ELSE scanFrom(scanLine(l, lines[n]), lines, n + 1)

\* loadStandardIntelHex on a file that exists, over the image h.
loadStandardIntelHex(h, content) == scanFrom(NewScan(h), ScanLines(content), 1)

\* loadBinaryFirmware on a file that exists: copy(f.hex[:copySize], content).
loadBinaryFirmware(h, content) ==
    LET copySize == Min(Len(content), ImageSize)
    IN  [i \in (DOMAIN h) \cup (0..(copySize - 1)) |->
            IF i < copySize THEN content[i + 1] ELSE h[i]]

\* ------------------------------------------------------------ converter: hex2bin

charToInt(c) ==
    IF c > 47 /\ c < 58 THEN c - 48
    ELSE IF c > 64 /\ c < 71 THEN c - 55
    ELSE IF c > 96 /\ c < 103 THEN c - 87
    ELSE 0

\* The search for the next ':' after the first character of the record: the
\* first i at which the loop "for cntcode+i < len && (allcode[cntcode+i] != ':'
\* || i == 0) { i++ }" stops.
nextColon(allcode, cntcode) ==
    LET S == {i \in 0..Len(allcode) :
                ~(cntcode + i < Len(allcode) /\ (allcode[cntcode + i + 1] # 58 \/ i = 0))}
    IN  CHOOSE i \in S : \A j \in S : i <= j

\* The loop over the data bytes of a type-00 record (the legacy formula).
RECURSIVE legacyBytes(_, _, _, _, _, _)
legacyBytes(h, text, num2, num3, writestep, j) ==
    IF j >= num2 \/ 9 + j * 2 + 1 >= Len(text)
    THEN h
    ELSE LET dataByte == charToInt(text[10 + j * 2]) * 16 + charToInt(text[11 + j * 2])
             addr == num3 + j - legacyBase + (writestep - 1) * legacyStep
         IN  legacyBytes(IF addr >= 0 /\ addr < ImageSize
                         THEN Store(h, addr, dataByte % 256)
                         ELSE h,
                         text, num2, num3, writestep, j + 1)

\* stringOperation on the fields c of the converter: one record, the text from
\* the cursor up to the next ':'; ret is what it returns.
stringOperation(c, allcode) ==
    LET i == nextColon(allcode, c.cntcode)
        text == SubSeq(allcode, c.cntcode + 1, c.cntcode + i)
        c1 == [c EXCEPT !.cntcode = @ + i]
        recordType == charToInt(text[8]) * 16 + charToInt(text[9])
        num2 == charToInt(text[2]) * 16 + charToInt(text[3])
        num3 == ((charToInt(text[4]) * 16 + charToInt(text[5])) * 16
                    + charToInt(text[6])) * 16 + charToInt(text[7])
    IN  IF allcode = <<>> THEN [c EXCEPT !.ret = FALSE]
        ELSE IF c.cntcode + i >= Len(allcode) THEN [c EXCEPT !.ret = FALSE]
        ELSE IF Len(text) < 9 THEN [c1 EXCEPT !.ret = FALSE]
        ELSE IF recordType = 0
        THEN IF Len(text) < 10 THEN [c1 EXCEPT !.ret = TRUE]
             ELSE [c1 EXCEPT !.ret = TRUE,
                             !.hex = legacyBytes(@, text, num2, num3, c.writestep, 0)]
        ELSE IF recordType = 1 THEN [c1 EXCEPT !.ret = FALSE]
        ELSE IF recordType = 4 THEN [c1 EXCEPT !.ret = TRUE, !.writestep = @ + 1]
        ELSE [c1 EXCEPT !.ret = TRUE]

\* The converter after loadAndConvert has read the file.
NewHexConverter == [hex |-> <<>>, cntcode |-> 0, writestep |-> 0, recordCount |-> 0, ret |-> TRUE]

\* The loop of loadAndConvert: for h.stringOperation() { recordCount++ }.
RECURSIVE convertFrom(_, _)
convertFrom(c, allcode) ==
    LET d == stringOperation(c, allcode)
    IN  IF d.ret THEN convertFrom([d EXCEPT !.recordCount = @ + 1], allcode) ELSE d

loadAndConvert(content) == convertFrom(NewHexConverter, content)

\* The binary file loadAndConvert writes: os.WriteFile(outputFile, h.hex), the
\* whole image of the converter, every byte no record wrote holding its fill.
ConvertedFile(c) == [i \in 1..ImageSize |-> HexAt(c.hex, i - 1, ConverterFill)]

\* ------------------------------------------------------------ firmware files

\* Records of a data line between the first and the last line of a file.
MaxLines == 2

\* Bytes of a buffer, and bytes a data record of an encoded buffer carries.
MaxBuf == 3
RecLen == 2

HexDigit(n) == IF n < 10 THEN 48 + n ELSE 55 + n

Hex2(v) == <<HexDigit(v \div 16), HexDigit(v % 16)>>

Hex4(v) == Hex2(v \div 256) \o Hex2(v % 256)

RECURSIVE HexBytes(_)
HexBytes(bs) == IF bs = <<>> THEN <<>> ELSE Hex2(Head(bs)) \o HexBytes(Tail(bs))

RECURSIVE SumSeq(_)
SumSeq(bs) == IF bs = <<>> THEN 0 ELSE Head(bs) + SumSeq(Tail(bs))

\* One Intel HEX record: ':', length, address, type, data, and the checksum
\* cs in place of the two's complement of the sum when cs is not -1.
RecordWith(addr, type, data, cs) ==
    LET sum == Len(data) + (addr \div 256) + (addr % 256) + type + SumSeq(data)
    IN  <<58>> \o Hex2(Len(data)) \o Hex4(addr) \o Hex2(type) \o HexBytes(data)
            \o Hex2(IF cs = -1 THEN (0 - sum) % 256 ELSE cs)

Record(addr, type, data) == RecordWith(addr, type, data, -1)

DataRecord(d) == Record(d.addr, 0, d.data)

EofRecord == Record(0, 1, <<>>)

ElaRecord(ext) == Record(0, 4, <<ext \div 256, ext % 256>>)

RECURSIVE Join(_)
Join(lines) == IF lines = <<>> THEN <<>> ELSE Head(lines) \o <<10>> \o Join(Tail(lines))

\* The extended address of the image (the high 16 bits of baseAddress) and
\* the record address of its first byte.
ImageExt == baseAddress \div 65536
ImageAddr == baseAddress % 65536

\* Scenario A: extended address 0x000A, 16 data bytes at record address 0x0028.
ScenarioRec == [addr |-> 40, data |-> <<255, 255, 1, 2, 3, 4, 5, 6, 7, 8, 9, 10, 11, 12, 13, 14>>]
ScenarioA == Join(<<ElaRecord(10), DataRecord(ScenarioRec), EofRecord>>)

\* Data records: the first bytes of the image, a record that starts one byte
\* below the image, one that ends one byte above it, and the record of
\* scenario A.
DataDescs ==
    { [addr |-> ImageAddr, data |-> <<18, 171>>],
      [addr |-> ImageAddr - 1, data |-> <<52, 86>>],
      [addr |-> ImageAddr + ImageSize - 1, data |-> <<120, 154>>],
      ScenarioRec }

ExtSamples == {ImageExt, 10}

\* A line too short for the fixed fields (":00"), and a line whose type field
\* is not hexadecimal (":000000GG00").
ShortLine == <<58, 48, 48>>
BadLine == <<58, 48, 48, 48, 48, 48, 48, 71, 71, 48, 48>>

LineSet ==
    {DataRecord(d) : d \in DataDescs} \cup {ElaRecord(e) : e \in ExtSamples}
        \cup {EofRecord, ShortLine, BadLine}

SeqsUpTo(S, n) == UNION {[1..k -> S] : k \in 0..n}

\* A buffer of the image: its offset and its bytes.
Buffers ==
    {[off |-> o, bytes |-> bs] : o \in {0, 1, ImageSize - MaxBuf}, bs \in SeqsUpTo({0, 26, 255}, MaxBuf)}

RECURSIVE Chunks(_, _)
Chunks(off, bs) ==
    IF bs = <<>> THEN <<>>
    ELSE LET n == Min(RecLen, Len(bs))
         IN  <<DataRecord([addr |-> ImageAddr + off, data |-> SubSeq(bs, 1, n)])>>
                 \o Chunks(off + n, SubSeq(bs, n + 1, Len(bs)))

\* The buffer as a well-formed Intel HEX stream addressed from baseAddress.
EncodeHex(b) == Join(<<ElaRecord(ImageExt)>> \o Chunks(b.off, b.bytes) \o <<EofRecord>>)

\* A binary file longer than the image.
BigFile == [i \in 1..(ImageSize + 3) |-> i % 251]

Files ==
    {Join(s) : s \in SeqsUpTo(LineSet, MaxLines)}
        \cup {Join(<<ElaRecord(ImageExt)>> \o s \o <<EofRecord>>) : s \in SeqsUpTo(LineSet, MaxLines)}
        \cup {EncodeHex(b) : b \in Buffers}
        \cup {ScenarioA}

Inputs ==
    {[prog |-> "flasher", ext |-> e, exists |-> TRUE, content |-> c] :
        e \in {"bin", "hex", "other"}, c \in Files}
        \cup {[prog |-> "flasher", ext |-> "bin", exists |-> TRUE, content |-> BigFile]}
        \cup {[prog |-> "flasher", ext |-> e, exists |-> FALSE, content |-> <<>>] :
                e \in {"bin", "hex", "other"}}
        \cup {[prog |-> "hex2bin", ext |-> "other", exists |-> TRUE, content |-> c] : c \in Files}
        \cup {[prog |-> "hex2bin", ext |-> "other", exists |-> FALSE, content |-> <<>>]}

\* ------------------------------------------------------------ loading, step by step

\* The tokens the scanner of loadStandardIntelHex returns for the input.
InputLines == ScanLines(input.content)

\* What follows a loadStandardIntelHex that returned false: the binary loader
\* for a file of unrecognised extension, the failure exit for a .hex file.
AfterHexFailed == IF input.ext = "other" THEN "bin" ELSE "failed"

\* initializeHex up to the first loader: the fill, then the choice by
\* extension. A file that cannot be opened makes every loader return false.
InitializeHex ==
    /\ input.prog = "flasher"
    /\ ld.phase = "init"
    /\ ld' = [ld EXCEPT !.hex = <<>>,
                        !.phase = IF ~input.exists THEN "failed"
                                  ELSE IF input.ext = "bin" THEN "bin"
                                  ELSE "hex"]
    /\ UNCHANGED <<session, input, hc, pk, spi, job>>

\* One iteration of the scanner loop of loadStandardIntelHex.
HexScan ==
    /\ input.prog = "flasher"
    /\ ld.phase = "hex"
    /\ ld.ln < Len(InputLines)
    /\ LET l == scanLine(ld, InputLines[ld.ln + 1])
       IN  ld' = [l EXCEPT !.ln = @ + 1,
                           !.phase = IF l.ret = "panic" THEN "panic"
                                     ELSE IF l.ret = "false" THEN AfterHexFailed
                                     ELSE "hex"]
    /\ UNCHANGED <<session, input, hc, pk, spi, job>>

\* The scanner is exhausted: loadStandardIntelHex returns recordCount > 0.
HexEnd ==
    /\ input.prog = "flasher"
    /\ ld.phase = "hex"
    /\ ld.ln = Len(InputLines)
    /\ LET l == scanEnd(ld)
       IN  ld' = [l EXCEPT !.phase = IF l.ret = "true" THEN "loaded" ELSE AfterHexFailed,
                           !.how = IF l.ret = "true" THEN "hex" ELSE @]
    /\ UNCHANGED <<session, input, hc, pk, spi, job>>

\* loadBinaryFirmware, which cannot fail on a file that exists.
LoadBinary ==
    /\ input.prog = "flasher"
    /\ ld.phase = "bin"
    /\ ld' = [ld EXCEPT !.hex = loadBinaryFirmware(@, input.content),
                        !.phase = "loaded",
                        !.how = "bin"]
    /\ UNCHANGED <<session, input, hc, pk, spi, job>>

\* loadAndConvert up to its loop: the fill, the reset of the fields, ReadFile.
ConvLoad ==
    /\ input.prog = "hex2bin"
    /\ hc.phase = "init"
    /\ hc' = [hc EXCEPT !.phase = IF input.exists THEN "run" ELSE "failed"]
    /\ UNCHANGED <<session, input, ld, pk, spi, job>>

\* One test of the loop of loadAndConvert; when stringOperation returns false
\* the image is written out.
ConvRecord ==
    /\ input.prog = "hex2bin"
    /\ hc.phase = "run"
    /\ LET c == stringOperation(hc, input.content)
       IN  hc' = IF c.ret THEN [c EXCEPT !.recordCount = @ + 1]
                 ELSE [c EXCEPT !.phase = "done"]
    /\ UNCHANGED <<session, input, ld, pk, spi, job>>

\* The flasher about to call initializeHex, or the converter about to call
\* loadAndConvert, on one of the input files.
InitHex ==
    /\ InitSession
    /\ input \in Inputs
    /\ ld = IF input.prog = "flasher"
            THEN [phase |-> "init", ln |-> 0, how |-> "none", hex |-> <<>>,
                  extendedAddress |-> 0, recordCount |-> 0, ret |-> "run"]
            ELSE "none"
    /\ hc = IF input.prog = "hex2bin"
            THEN [phase |-> "init", hex |-> <<>>, cntcode |-> 0, writestep |-> 0,
                  recordCount |-> 0, ret |-> TRUE]
            ELSE "none"
    /\ pk = "none"
    /\ spi = "none"
    /\ job = "none"

NextHex ==
    \/ InitializeHex
    \/ HexScan
    \/ HexEnd
    \/ LoadBinary
    \/ ConvLoad
    \/ ConvRecord

SpecHex == InitHex /\ [][NextHex]_vars

\* ------------------------------------------------------------ packets on the wire

\* Payload bytes of a data packet in the byte-level model (1024 in the source).
PayloadLen == 3

\* The first byte of a data packet (f.sendbuf[0] = 87).
DataCmd == 87

\* The protocol parameters NewFlasher sets for the variant.
Protocol(useIRadio) ==
    IF useIRadio
    THEN [sendConnect |-> <<57, 51, 5, 16, 129>>,
          sendEnd |-> <<57, 51, 5, 238, 95>>,
          sendUpdate |-> <<57, 51, 5, 85, 198>>,
          checksumOffset |-> 0]
    ELSE [sendConnect |-> <<57, 51, 5, 16, 211>>,
          sendEnd |-> <<57, 51, 5, 238, 177>>,
          sendUpdate |-> <<57, 51, 5, 85, 24>>,
          checksumOffset |-> 82]

\* The loop of checksum: sum += array[i] in a byte, for i < length - 1.
RECURSIVE checksumLoop(_, _, _, _)
checksumLoop(array, length, i, sum) ==
    IF i < length - 1
    THEN checksumLoop(array, length, i + 1, (sum + array[i + 1]) % 256)
    ELSE sum

\* Faulty variant of checksum: the offset of the variant is not added.
checksum_noOffset(array, length, checksumOffset) == checksumLoop(array, length, 0, 0)

checksum(array, length, checksumOffset) ==
    (checksumLoop(array, length, 0, 0) + checksumOffset) % 256

\* Faulty variant of buildDataPacket: the two offset bytes in the other order.
buildDataPacket_littleEndian(sendbuf, sendcnt, hexBytes, checksumOffset) ==
    LET n == Len(hexBytes) + 4
        b == [i \in 1..n |->
                IF i = 1 THEN sendbuf[1]
                ELSE IF i = 2 THEN sendcnt % 256
                ELSE IF i = 3 THEN (sendcnt \div 256) % 256
                ELSE IF i < n THEN hexBytes[i - 3]
                ELSE sendbuf[n]]
    IN  [b EXCEPT ![n] = checksum(b, n, checksumOffset)]

\* The data packet revDateOperation builds in f.sendbuf for the cursor sendcnt
\* and the payload bytes hexBytes (f.hex[sendcnt .. sendcnt + 1023]).
buildDataPacket(sendbuf, sendcnt, hexBytes, checksumOffset) ==
    LET n == Len(hexBytes) + 4
        b == [i \in 1..n |->
                IF i = 1 THEN sendbuf[1]
                ELSE IF i = 2 THEN (sendcnt \div 256) % 256
                ELSE IF i = 3 THEN sendcnt % 256
                ELSE IF i < n THEN hexBytes[i - 3]
                ELSE sendbuf[n]]
    IN  [b EXCEPT ![n] = checksum(b, n, checksumOffset)]

\* Bytes of the image a payload is drawn from.
ByteSamples == {0, 128, 255}

\* One of the three control sequences is written.
PkControl ==
    /\ \E k \in {"sendConnect", "sendUpdate", "sendEnd"} :
          pk' = [pk EXCEPT !.sent = Protocol(pk.useIRadio)[k], !.kind = k]
    /\ UNCHANGED <<session, input, ld, hc, spi, job>>

\* The image size the transfer ends at (the literal of revDateOperation), and
\* the data packets one run of the encoder builds.
FirmwareSize == 251904
MaxPackets == 3

\* Cursors the encoder starts from: the first block, the last block below
\* 65536, and the last two blocks of the image.
CursorStarts == {0, 65536 - BlockSize, FirmwareSize - 2 * BlockSize}

\* A data packet is built at the cursor and written; the cursor advances.
PkData ==
    /\ pk.sendcnt + BlockSize <= FirmwareSize
    /\ pk.sendcnt < pk.start + MaxPackets * BlockSize
    /\ \E hexBytes \in [1..PayloadLen -> ByteSamples] :
          LET b == buildDataPacket(pk.sendbuf, pk.sendcnt, hexBytes,
                                   Protocol(pk.useIRadio).checksumOffset)
          IN  pk' = [pk EXCEPT !.sendbuf = b,
                               !.sent = b,
                               !.kind = "data",
                               !.hexBytes = hexBytes,
                               !.sendcnt = @ + BlockSize]
    /\ UNCHANGED <<session, input, ld, hc, spi, job>>

\* The flasher of either variant at a block boundary of the transfer.
InitPacket ==
    /\ InitSession
    /\ input = "none"
    /\ ld = "none"
    /\ hc = "none"
    /\ spi = "none"
    /\ job = "none"
    /\ \E u \in BOOLEAN, c \in CursorStarts :
          pk = [useIRadio |-> u,
                start |-> c,
                sendcnt |-> c,
                hexBytes |-> <<>>,
                sendbuf |-> [i \in 1..(PayloadLen + 4) |-> IF i = 1 THEN DataCmd ELSE 0],
                sent |-> <<>>,
                kind |-> "none"]

NextPacket == PkControl \/ PkData

SpecPacket == InitPacket /\ [][NextPacket]_vars

\* ------------------------------------------------------------ SPI tools: Read block

\* The command byte of Read block.
CMD_READ_SPI_FLASH == 82

\* The offset calculateChecksum of spi-flash adds.
FlashChecksumOffset == 82

\* The loops "for _, b := range data { sum += b }" over a byte.
RECURSIVE sumBytes(_)
sumBytes(data) == IF data = <<>> THEN 0 ELSE (sumBytes(SubSeq(data, 1, Len(data) - 1)) + data[Len(data)]) % 256

\* setChecksum of spi-tool: the sum of all bytes but the last, in the last.
setChecksum(command) ==
    [command EXCEPT ![Len(command)] = sumBytes(SubSeq(command, 1, Len(command) - 1))]

\* calculateChecksum of spi-flash.
calculateChecksum(command) == (sumBytes(command) + FlashChecksumOffset) % 256

\* verifyChecksum of spi-tool, verify of spi-flash: the same code.
verifyChecksum(data) ==
    IF Len(data) < 1 THEN FALSE
    ELSE data[Len(data)] = sumBytes(SubSeq(data, 1, Len(data) - 1))

\* The 4-byte command of commandReadSPIFlash, by tool.
readCommand(tool, blockNum) ==
    LET hi == (blockNum \div 256) % 256
        lo == blockNum % 256
    IN  IF tool = "spi-tool"
        THEN setChecksum(<<CMD_READ_SPI_FLASH, hi, lo, 0>>)
        ELSE <<CMD_READ_SPI_FLASH, hi, lo, calculateChecksum(<<CMD_READ_SPI_FLASH, hi, lo>>)>>

\* The length of a response block in the byte-level model (1028 in the source).
BlockLen == PayloadLen + 4

\* s.port.Read(block) that returned n bytes of what the device sent.
readInto(block, resp, n) == [i \in 1..Len(block) |-> IF i <= n THEN resp[i] ELSE block[i]]

\* The header test of spi-tool.
headerMatches(block, command) ==
    block[1] = CMD_READ_SPI_FLASH /\ block[2] = command[2] /\ block[3] = command[3]

\* copy(data, block[3:1027])
payloadOf(block) == SubSeq(block, 4, Len(block) - 1)

\* The call has returned the data, or the error err.
spiReturn(s, data) == [s EXCEPT !.phase = "done", !.data = data]
spiError(s, err) == [s EXCEPT !.phase = "error", !.err = err]

\* spi-tool after the accumulating read has collected a whole block: the
\* header test, then the checksum test that decides on the second read.
toolAfterRead(s) ==
    IF headerMatches(s.block, s.command)
    THEN IF ~verifyChecksum(s.block) THEN [s EXCEPT !.phase = "read2"]
         ELSE spiReturn(s, payloadOf(s.block))
    ELSE spiError(s, "header")

\* spi-tool after the second read: a checksum that still fails is logged, and
\* the data is returned.
toolAfterSecond(s) == spiReturn(s, payloadOf(s.block))

\* spi-flash after its first read.
flashAfterRead(s) ==
    IF ~verifyChecksum(s.block) THEN [s EXCEPT !.phase = "read2"]
    ELSE spiReturn(s, payloadOf(s.block))

\* spi-flash after its second read.
flashAfterSecond(s) ==
    IF verifyChecksum(s.block) THEN spiReturn(s, payloadOf(s.block))
    ELSE spiError(s, "verify")

\* What the device may send in answer to a command: a block with the header
\* of the command or another one, one of two payloads, and the right checksum
\* or a wrong one.
Responses(command) ==
    { LET b == <<command[1], command[2], (command[3] + d) % 256>> \o p \o <<0>>
      IN  [b EXCEPT ![BlockLen] = (sumBytes(SubSeq(b, 1, BlockLen - 1)) + c) % 256] :
        d \in {0, 1},
        p \in {[i \in 1..PayloadLen |-> 255], [i \in 1..PayloadLen |-> i]},
        c \in {0, 1} }

\* Bytes one Read call may return: none, the header only, the whole block.
ReadSizes == {0, 3, BlockLen}

\* The command is written; Write may fail.
SpiSend ==
    /\ spi.phase = "start"
    /\ \/ spi' = [spi EXCEPT !.phase = "read1", !.command = readCommand(spi.tool, spi.blockNum)]
       \/ spi' = spiError([spi EXCEPT !.command = readCommand(spi.tool, spi.blockNum)], "io")
    /\ UNCHANGED <<session, input, ld, hc, pk, job>>

\* spi-tool: the accumulating read collects a block, or ends with the timeout
\* or a read error.
SpiToolRead ==
    /\ spi.tool = "spi-tool"
    /\ spi.phase = "read1"
    /\ \/ \E resp \in Responses(spi.command) :
             spi' = toolAfterRead([spi EXCEPT !.block = resp, !.first = resp, !.reads = 1])
       \/ spi' = spiError(spi, "io")
    /\ UNCHANGED <<session, input, ld, hc, pk, job>>

\* spi-tool: the one Read call after a failed checksum.
SpiToolSecond ==
    /\ spi.tool = "spi-tool"
    /\ spi.phase = "read2"
    /\ \/ \E resp \in Responses(spi.command), n \in ReadSizes :
             spi' = toolAfterSecond([spi EXCEPT !.block = readInto(@, resp, n), !.reads = 2])
       \/ spi' = spiError(spi, "io")
    /\ UNCHANGED <<session, input, ld, hc, pk, job>>

\* spi-flash: the first Read call.
SpiFlashRead ==
    /\ spi.tool = "spi-flash"
    /\ spi.phase = "read1"
    /\ \/ \E resp \in Responses(spi.command), n \in ReadSizes :
             LET b == readInto(spi.block, resp, n)
             IN  spi' = flashAfterRead([spi EXCEPT !.block = b, !.first = b, !.reads = 1])
       \/ spi' = spiError(spi, "io")
    /\ UNCHANGED <<session, input, ld, hc, pk, job>>

\* spi-flash: the second Read call.
SpiFlashSecond ==
    /\ spi.tool = "spi-flash"
    /\ spi.phase = "read2"
    /\ \/ \E resp \in Responses(spi.command), n \in ReadSizes :
             spi' = flashAfterSecond([spi EXCEPT !.block = readInto(@, resp, n), !.reads = 2])
       \/ spi' = spiError(spi, "io")
    /\ UNCHANGED <<session, input, ld, hc, pk, job>>

\* ------------------------------------------------------------ SPI tools: Write block

\* The command byte of Write block.
WriteCmd == 87

\* Faulty variant of writeCommand: the checksum covers the data bytes only.
writeCommand_dataOnly(blockNum, data) ==
    <<WriteCmd, (blockNum \div 256) % 256, blockNum % 256>> \o data \o <<sumBytes(data)>>

\* The command of commandWriteSPIFlash: 0x57, the block number, the data, and
\* the checksum setChecksum puts in the last byte.
writeCommand(blockNum, data) ==
    setChecksum(<<WriteCmd, (blockNum \div 256) % 256, blockNum % 256>> \o data \o <<0>>)

\* What the port does during one commandWriteSPIFlash: Write succeeds or not,
\* and the read loop ends with a byte, with the deadline, or with an error.
WriteDevs == [write : BOOLEAN, read : {"byte", "timeout", "io"}, byte : {ACK, NAK, 0, 21}]

\* commandWriteSPIFlash: the bytes it wrote to the port and the error it
\* returned ("none" for nil).
commandWriteSPIFlash(blockNum, data, dev) ==
    IF Len(data) # PayloadLen
    THEN [written |-> <<>>, resp |-> <<>>, err |-> "length"]
    ELSE IF ~dev.write
    THEN [written |-> <<>>, resp |-> <<>>, err |-> "io"]
    ELSE LET command == writeCommand(blockNum, data)
         IN  IF dev.read = "timeout"
             THEN [written |-> command, resp |-> <<>>, err |-> "timeout"]
             ELSE IF dev.read = "io"
             THEN [written |-> command, resp |-> <<>>, err |-> "io"]
             ELSE [written |-> command, resp |-> <<dev.byte>>,
                   err |-> IF dev.byte = ACK THEN "none" ELSE "rejected"]

\* Data handed to Write block: of the block length, one byte short, one long.
WriteData == UNION { [1..n -> {1, 255}] : n \in (PayloadLen - 1)..(PayloadLen + 1) }

\* One call of commandWriteSPIFlash.
SpiWrite ==
    /\ spi.phase = "wstart"
    /\ \E dev \in WriteDevs :
          LET w == commandWriteSPIFlash(spi.blockNum, spi.data, dev)
          IN  spi' = [spi EXCEPT !.phase = IF w.err = "none" THEN "wdone" ELSE "werror",
                                 !.command = w.written,
                                 !.block = w.resp,
                                 !.err = w.err]
    /\ UNCHANGED <<session, input, ld, hc, pk, job>>

\* A tool about to read one block, or spi-tool about to write one.
InitSpi ==
    /\ InitSession
    /\ input = "none"
    /\ ld = "none"
    /\ hc = "none"
    /\ pk = "none"
    /\ job = "none"
    /\ \/ \E t \in {"spi-tool", "spi-flash"}, n \in {0, 1, 258, 4095} :
             spi = [tool |-> t,
                    blockNum |-> n,
                    phase |-> "start",
                    command |-> <<>>,
                    block |-> [i \in 1..BlockLen |-> 0],
                    first |-> <<>>,
                    reads |-> 0,
                    data |-> <<>>,
                    err |-> "none"]
       \/ \E n \in {0, 1, 258, 4095}, d \in WriteData :
             spi = [tool |-> "spi-tool",
                    blockNum |-> n,
                    phase |-> "wstart",
                    command |-> <<>>,
                    block |-> <<>>,
                    first |-> <<>>,
                    reads |-> 0,
                    data |-> d,
                    err |-> "none"]

NextSpi ==
    \/ SpiSend
    \/ SpiToolRead
    \/ SpiToolSecond
    \/ SpiFlashRead
    \/ SpiFlashSecond
    \/ SpiWrite

SpecSpi == InitSpi /\ [][NextSpi]_vars

\* ------------------------------------------------------------ SPI tools: backup and restore

\* totalBlocks of a run in the model. The sources loop over 32768 blocks
\* (spi-tool) and 4096 blocks (spi-flash); the model scales the count, and the
\* block length with PayloadLen.
JobBlocks == 3

\* SPI_FLASH_SIZE (totalBlocks * CHUNK_SIZE), as scaled.
SPI_FLASH_SIZE == JobBlocks * PayloadLen

\* maxRetries of the backup loops.
backupMaxRetries == 3

\* The flash of the device, by block, and what the device may send in answer
\* to a read command: the block the command names, with the header of the
\* command or another one, and the right checksum or a wrong one.
FlashBlock(n) == [i \in 1..PayloadLen |-> (n * PayloadLen + i) % 256]

FlashResponses(command) ==
    { LET b == <<command[1], command[2], (command[3] + d) % 256>>
                  \o FlashBlock(command[2] * 256 + command[3]) \o <<0>>
      IN  [b EXCEPT ![BlockLen] = (sumBytes(SubSeq(b, 1, BlockLen - 1)) + c) % 256] :
        d \in {0, 1}, c \in {0, 1} }

\* What the port does during one commandReadSPIFlash: Write fails, or the
\* first read fails, or it brings (n1 bytes of) the block r1 and the second
\* read, when there is one, fails or brings n2 bytes of the block r2. The
\* accumulating first read of spi-tool always collects a whole block.
ReadDevs(tool, command) ==
    LET none == CHOOSE r \in FlashResponses(command) : TRUE
        base == [write |-> TRUE, io1 |-> FALSE, r1 |-> none, n1 |-> BlockLen,
                 io2 |-> FALSE, r2 |-> none, n2 |-> BlockLen]
        sizes1 == IF tool = "spi-tool" THEN {BlockLen} ELSE ReadSizes
    IN  {[base EXCEPT !.write = FALSE], [base EXCEPT !.io1 = TRUE]}
        \cup { [base EXCEPT !.r1 = r1, !.n1 = n1, !.io2 = TRUE] :
                  r1 \in FlashResponses(command), n1 \in sizes1 }
        \cup { [base EXCEPT !.r1 = r1, !.n1 = n1, !.r2 = r2, !.n2 = n2] :
                  r1 \in FlashResponses(command), n1 \in sizes1,
                  r2 \in FlashResponses(command), n2 \in ReadSizes }

\* commandReadSPIFlash as one call: the call record when it returns.
commandReadSPIFlash(tool, blockNum, dev) ==
    LET s0 == [tool |-> tool,
               blockNum |-> blockNum,
               phase |-> "read1",
               command |-> readCommand(tool, blockNum),
               block |-> [i \in 1..BlockLen |-> 0],
               first |-> <<>>,
               reads |-> 0,
               data |-> <<>>,
               err |-> "none"]
    IN  IF ~dev.write THEN spiError(s0, "write")
        ELSE IF dev.io1 THEN spiError(s0, "io")
        ELSE LET b1 == IF tool = "spi-tool" THEN dev.r1 ELSE readInto(s0.block, dev.r1, dev.n1)
                 r == [s0 EXCEPT !.block = b1, !.first = b1, !.reads = 1]
                 s1 == IF tool = "spi-tool" THEN toolAfterRead(r) ELSE flashAfterRead(r)
             IN  IF s1.phase # "read2" THEN s1
                 ELSE IF dev.io2 THEN spiError(s1, "io")
                 ELSE LET s2 == [s1 EXCEPT !.block = readInto(@, dev.r2, dev.n2), !.reads = 2]
                      IN  IF tool = "spi-tool" THEN toolAfterSecond(s2) ELSE flashAfterSecond(s2)

\* uint16(block)
uint16(n) == n % 65536

\* The command has returned err to main ("none" for nil).
jobReturn(j, err) == [j EXCEPT !.phase = "returned", !.ret = err]

\* The command of a call of Read block or Write block is entered in the log
\* of the commands handed to port.Write, and the outcome of the call is kept
\* until the next one.
logCall(j, command, err, data) ==
    [j EXCEPT !.sent = Append(@, command),
              !.last = [ok |-> err = "none", data |-> data],
              !.got = IF err = "none"
                      THEN Append(@, [block |-> command[2] * 256 + command[3], data |-> data])
                      ELSE @]

\* Faulty variant of backupAfterRead: a failed attempt is repeated without
\* limit.
backupAfterRead_noLimit(j, r, fileOk) ==
    LET j1 == logCall(j, r.command, r.err, r.data)
    IN  IF r.phase = "done"
        THEN IF ~fileOk THEN jobReturn(j1, "file")
             ELSE LET j2 == [j1 EXCEPT !.file = @ \o r.data, !.block = @ + 1, !.retries = 0]
                  IN  IF j2.block < JobBlocks THEN j2 ELSE jobReturn(j2, "none")
        ELSE [j1 EXCEPT !.retries = Min(@ + 1, backupMaxRetries)]

\* Faulty variant of backupAfterRead: a block read is put in front of the
\* file instead of after it.
backupAfterRead_prepend(j, r, fileOk) ==
    LET j1 == logCall(j, r.command, r.err, r.data)
    IN  IF r.phase = "done"
        THEN IF ~fileOk THEN jobReturn(j1, "file")
             ELSE LET j2 == [j1 EXCEPT !.file = r.data \o @, !.block = @ + 1, !.retries = 0]
                  IN  IF j2.block < JobBlocks THEN j2 ELSE jobReturn(j2, "none")
        ELSE IF j1.retries < backupMaxRetries - 1
             THEN [j1 EXCEPT !.retries = @ + 1]
             ELSE jobReturn(j1, "read")

\* Faulty variant of backupAfterRead: a block read at a repeated attempt is
\* written to the file twice.
backupAfterRead_twice(j, r, fileOk) ==
    LET j1 == logCall(j, r.command, r.err, r.data)
    IN  IF r.phase = "done"
        THEN IF ~fileOk THEN jobReturn(j1, "file")
             ELSE LET d == IF j.retries > 0 THEN r.data \o r.data ELSE r.data
                      j2 == [j1 EXCEPT !.file = @ \o d, !.block = @ + 1, !.retries = 0]
                  IN  IF j2.block < JobBlocks THEN j2 ELSE jobReturn(j2, "none")
        ELSE IF j1.retries < backupMaxRetries - 1
             THEN [j1 EXCEPT !.retries = @ + 1]
             ELSE jobReturn(j1, "read")

\* The loops of backupSPIFlash and dumpSPIFlash after one attempt returned r:
\* a block read is written to the file and the loop moves on (and returns nil
\* after the last block); a failed attempt is repeated, and the third failure
\* for a block returns the error.
backupAfterRead(j, r, fileOk) ==
    LET j1 == logCall(j, r.command, r.err, r.data)
    IN  IF r.phase = "done"
        THEN IF ~fileOk THEN jobReturn(j1, "file")
             ELSE LET j2 == [j1 EXCEPT !.file = @ \o r.data, !.block = @ + 1, !.retries = 0]
                  IN  IF j2.block < JobBlocks THEN j2 ELSE jobReturn(j2, "none")
        ELSE IF j1.retries < backupMaxRetries - 1
             THEN [j1 EXCEPT !.retries = @ + 1]
             ELSE jobReturn(j1, "read")

\* Faulty variant of sizeAccepted: a file shorter than the flash passes.
sizeAccepted_atMost(fileSize) == fileSize <= SPI_FLASH_SIZE

\* The size test of restoreSPIFlash.
sizeAccepted(fileSize) == fileSize = SPI_FLASH_SIZE

\* file.Read(buffer) at block: the next CHUNK_SIZE bytes of the file, a short
\* last read padded with 0xFF.
chunkOf(src, block) ==
    [i \in 1..PayloadLen |->
        IF block * PayloadLen + i <= Len(src) THEN src[block * PayloadLen + i] ELSE 255]

\* Faulty variant of restoreAfterWrite: a failed write is skipped and the
\* loop goes on.
restoreAfterWrite_goOn(j, w) ==
    LET j1 == logCall(j, writeCommand(uint16(j.block), chunkOf(j.src, j.block)), w.err, <<>>)
        j2 == [j1 EXCEPT !.block = @ + 1]
    IN  IF j2.block < JobBlocks THEN j2 ELSE jobReturn(j2, "none")

\* The loop of restoreSPIFlash after Write block returned w: an error ends the
\* restore, otherwise the loop moves on (and returns nil after the last block).
restoreAfterWrite(j, w) ==
    LET j1 == logCall(j, writeCommand(uint16(j.block), chunkOf(j.src, j.block)), w.err, <<>>)
    IN  IF w.err # "none" THEN jobReturn(j1, "write")
        ELSE LET j2 == [j1 EXCEPT !.block = @ + 1]
             IN  IF j2.block < JobBlocks THEN j2 ELSE jobReturn(j2, "none")

\* Files handed to restore: of the flash size, one byte short, one byte long,
\* and empty.
RestoreFiles ==
    { [i \in 1..n |-> (i * 37) % 256] : n \in {0, SPI_FLASH_SIZE - 1, SPI_FLASH_SIZE, SPI_FLASH_SIZE + 1} }

\* connectToPort in main: Open fails (exit 1), SetReadTimeout of spi-tool
\* fails (the port is closed again, exit 1), or the port is open.
JobConnect ==
    /\ job.phase = "connect"
    /\ \/ job' = [job EXCEPT !.phase = "start", !.port = "open"]
       \/ job' = [job EXCEPT !.phase = "exited", !.ret = "connect", !.status = 1]
       \/ /\ job.tool = "spi-tool"
          /\ job' = [job EXCEPT !.phase = "exited", !.ret = "connect", !.status = 1,
                                !.port = "closed"]
    /\ UNCHANGED <<session, input, ld, hc, pk, spi>>

\* The head of backupSPIFlash and dumpSPIFlash: os.Create.
JobCreate ==
    /\ job.phase = "start"
    /\ job.cmd = "backup"
    /\ \/ job' = [job EXCEPT !.phase = "loop"]
       \/ job' = jobReturn(job, "file")
    /\ UNCHANGED <<session, input, ld, hc, pk, spi>>

\* One attempt of the backup loop.
JobBackupStep ==
    /\ job.phase = "loop"
    /\ job.cmd = "backup"
    /\ LET n == uint16(job.block)
       IN  \E dev \in ReadDevs(job.tool, readCommand(job.tool, n)), fileOk \in BOOLEAN :
              job' = backupAfterRead(job, commandReadSPIFlash(job.tool, n, dev), fileOk)
    /\ UNCHANGED <<session, input, ld, hc, pk, spi>>

\* The head of restoreSPIFlash: os.Open, Stat and the size test.
JobOpenFile ==
    /\ job.phase = "start"
    /\ job.cmd = "restore"
    /\ \/ job' = jobReturn(job, "file")
       \/ job' = IF sizeAccepted(Len(job.src))
                 THEN [job EXCEPT !.phase = "loop"]
                 ELSE jobReturn(job, "size")
    /\ UNCHANGED <<session, input, ld, hc, pk, spi>>

\* One turn of the restore loop: file.Read (a failed read ends the loop and
\* the restore returns nil), then Write block.
JobRestoreStep ==
    /\ job.phase = "loop"
    /\ job.cmd = "restore"
    /\ \/ job' = jobReturn(job, "none")
       \/ \E dev \in WriteDevs :
             job' = restoreAfterWrite(job,
                        commandWriteSPIFlash(uint16(job.block), chunkOf(job.src, job.block), dev))
    /\ UNCHANGED <<session, input, ld, hc, pk, spi>>

\* main after the command returned: an error is printed and os.Exit(1) ends
\* the process at once, without running the deferred disconnect; after nil
\* main returns, and the deferred disconnect closes the port.
JobExit ==
    /\ job.phase = "returned"
    /\ job' = IF job.ret # "none"
              THEN [job EXCEPT !.phase = "exited", !.status = 1]
              ELSE [job EXCEPT !.phase = "exited", !.status = 0, !.port = "closed"]
    /\ UNCHANGED <<session, input, ld, hc, pk, spi>>

\* A tool started with a command and a file, the port found in the list.
InitJob ==
    /\ InitSession
    /\ input = "none"
    /\ ld = "none"
    /\ hc = "none"
    /\ pk = "none"
    /\ spi = "none"
    /\ \E t \in {"spi-tool", "spi-flash"}, c \in {"backup", "restore"}, src \in RestoreFiles :
          /\ t = "spi-flash" => c = "backup"
          /\ c = "backup" => src = <<>>
          /\ job = [tool |-> t,
                    cmd |-> c,
                    src |-> src,
                    port |-> "nil",
                    phase |-> "connect",
                    block |-> 0,
                    retries |-> 0,
                    sent |-> <<>>,
                    last |-> [ok |-> TRUE, data |-> <<>>],
                    got |-> <<>>,
                    file |-> <<>>,
                    ret |-> "none",
                    status |-> -1]

NextJob ==
    \/ JobConnect
    \/ JobCreate
    \/ JobBackupStep
    \/ JobOpenFile
    \/ JobRestoreStep
    \/ JobExit

SpecJob == InitJob /\ [][NextJob]_vars

\* ------------------------------------------------------------ claims

RxAck == <<"rx", ACK>>
RxNak == <<"rx", NAK>>

Aborted == f.step = 0 /\ f.port = "closed"

\* What of a call's outcome the device and the user can observe.
View(r) == <<r.f.step, r.f.sendcnt, r.f.retryCount, r.f.waitingForAck, r.f.port, r.tx, r.panic>>

\* The packets t hold the data block of image offset off.
HasBlock(t, off) == \E i \in 1..Len(t) : t[i].kind = "data" /\ t[i].data = off

\* C1 (retry bound). With a device that answers every data packet with NAK, or
\* never answers, a session that has written a data packet is waiting for the
\* answer to one of its at most 1 + maxRetries transmissions of the block, or
\* is about to retransmit it (the next NAK or timeout writes it again), or is
\* Aborted with the port closed after exactly maxRetries retransmissions.
C1_RetryBound ==
    lastData >= 0 =>
        \/ (f.step = 4 /\ f.port = "open" /\ f.waitingForAck /\ nRetx <= maxRetries)
        \/ (f.step = 4 /\ f.port = "open" /\ nRetx < maxRetries
              /\ (\/ HasBlock(readData(Run(f), NAK).tx, lastData)
                  \/ HasBlock(checkTimeout(Run(f)).tx, lastData)))
        \/ (Aborted /\ nRetx = maxRetries)

\* C2 (transfer monotonicity). With a device that acknowledges everything, each
\* data packet written carries the offset that follows the previous one (0 for
\* the first), one packet per step, and the session is complete exactly when
\* the cursor is the image size, the last block written being the last block
\* of the image.
C2_Monotonic ==
    /\ [](f.step = 5 => f.sendcnt = ImageSize /\ lastData = ImageSize - BlockSize)
    /\ [][DataIn(tx') # <<>> =>
            /\ Len(DataIn(tx')) = 1
            /\ DataIn(tx')[1].data = (IF lastData = -1 THEN 0 ELSE lastData + BlockSize)]_vars

C4_HandshakeOrder ==
    [][/\ (ev' = RxAck /\ acks < 2 => tx' = <<sendConnect>>)
       /\ (ev' = RxAck /\ acks = 2 => tx' = <<sendUpdate>>)
       /\ (sendUpdate \in {tx'[i] : i \in 1..Len(tx')} => ev' = RxAck /\ acks = 2)
       /\ (DataIn(tx') # <<>> => ev' = RxAck /\ "update" \in wrote)
       /\ (DataIn(tx') # <<>> /\ lastData = -1 => DataIn(tx')[1].data = 0)]_vars

\* C5 (completion). The end sequence is written only by a step that receives
\* an ACK while the cursor is already at the image end: no data packet is
\* unacknowledged when it is written, and none is written with it.
C5_EndAfterFinalAck ==
    sendEnd \in {tx[i] : i \in 1..Len(tx)} =>
        /\ ev = RxAck
        /\ outstanding = 0
        /\ DataIn(tx) = <<>>

\* C6 (NAK during transfer). A NAK received in step 4 after a block was
\* written, with retries left, moves the cursor back by one block, adds one to
\* the retry counter, leaves the port open, and the block is written again:
\* by the step that receives the NAK, or by the handling of whatever comes
\* next (a byte of the device, or the timeout).
C6_NakResends ==
    [][(ev' = RxNak /\ f.step = 4 /\ lastData >= 0 /\ f.retryCount < maxRetries) =>
          /\ f'.sendcnt = f.sendcnt - BlockSize
          /\ f'.retryCount = f.retryCount + 1
          /\ f'.port = "open"
          /\ \/ HasBlock(tx', lastData)
             \/ HasBlock(checkTimeout(Run(f')).tx, lastData)
             \/ \E b \in DeviceBytes : HasBlock(readData(Run(f'), b).tx, lastData)]_vars

\* C7 (NAK during handshake). A NAK received in steps 1..3, before any data
\* packet, closes the port and aborts the session, and an aborted session
\* writes nothing more.
C7_HandshakeNakFatal ==
    [][/\ (ev' = RxNak /\ f.step \in 1..3 /\ lastData = -1 =>
              f'.port = "closed" /\ f'.step = 0)
       /\ (Aborted => tx' = <<>>)]_vars

\* C8 (timeout equals NAK). In a session waiting for the ACK of a data packet,
\* the timeout and a NAK have the same outcome, and after either every byte
\* of the device is handled alike.
C8_TimeoutIsNak ==
    (f.step = 4 /\ f.waitingForAck /\ f.port = "open") =>
        LET n == readData(Run(f), NAK)
            t == checkTimeout(Run(f))
        IN  /\ View(n) = View(t)
            /\ \A b \in DeviceBytes :
                  View(readData(Run(n.f), b)) = View(readData(Run(t.f), b))

\* C9 (connect attempts). While no non-zero byte has been received the
\* foreground never reaches the wait loop and no more than 4 connect sequences
\* are written; when it then gives up it has written exactly 4 and has closed
\* the port.
C9_ConnectAttempts ==
    ~nonzeroSeen =>
        /\ pc \notin {"wait", "exit0"}
        /\ nConnect <= 4
        /\ (pc = "exit1" /\ f.port # "nil" => nConnect = 4 /\ f.port = "closed")

\* C9 witness: the foreground gave up after presence bytes only.
C9_Witness ==
    /\ pc = "exit1"
    /\ ~nonzeroSeen
    /\ ev = <<"fg", 0>>
    /\ f.recvcnt > 0
    /\ nConnect = 4
    /\ f.port = "closed"

\* C10 (unknown bytes are ignored). A byte other than 0x00, 0x06 and 0xFF
\* leaves step, cursor, retry counter and port as they are, and the ACK or NAK
\* that follows has the outcome it would have had without it.
C10_UnknownIgnored ==
    f.port = "open" =>
        \A u \in UnknownBytes :
            LET r == readData(Run(f), u)
            IN  /\ r.f.step = f.step
                /\ r.f.sendcnt = f.sendcnt
                /\ r.f.retryCount = f.retryCount
                /\ r.f.port = f.port
                /\ \A b \in {ACK, NAK} :
                      View(readData(Run(r.f), b)) = View(readData(Run(f), b))

\* The encoded buffers, by buffer.
Encoded == [b \in Buffers |-> EncodeHex(b)]

\* The image h holds the bytes bs from offset off on and the fill elsewhere.
HoldsOnly(h, off, bs, fill) ==
    \A i \in 0..(ImageSize - 1) :
        HexAt(h, i, fill) = IF i >= off /\ i < off + Len(bs) THEN bs[i - off + 1] ELSE fill

\* C12 (Intel HEX round trip). The flasher decoding a buffer of the image
\* encoded as a well-formed Intel HEX stream addressed from baseAddress
\* (extended-address record, data records, end-of-file record) never fails,
\* and when it has loaded the file the image holds the buffer byte for byte at
\* its offsets and the fill 0xFF everywhere else.
C12_RoundTrip ==
    \A b \in Buffers :
        (input.prog = "flasher" /\ input.ext \in {"hex", "other"} /\ input.content = Encoded[b]) =>
            /\ ld.phase \in {"init", "hex", "loaded"}
            /\ ld.phase = "loaded" =>
                  ld.how = "hex" /\ HoldsOnly(ld.hex, b.off, b.bytes, FlasherFill)

\* C12 witness: a buffer of MaxBuf bytes, in more than one data record and not
\* at offset 0, has been decoded.
C12_Witness ==
    /\ input.prog = "flasher"
    /\ ld.phase = "loaded"
    /\ ld.how = "hex"
    /\ ld.recordCount > 3
    /\ \E b \in Buffers :
          /\ b.off = 1
          /\ b.bytes = [i \in 1..MaxBuf |-> IF i = 1 THEN 26 ELSE 255]
          /\ input.content = Encoded[b]

\* The payload of the most recent type-04 record among the first n lines, 0
\* when there is none.
RECURSIVE LastExt(_, _)
LastExt(lines, n) ==
    IF n = 0 THEN 0
    ELSE IF \E e \in ExtSamples : lines[n] = ElaRecord(e)
    THEN CHOOSE e \in ExtSamples : lines[n] = ElaRecord(e)
    ELSE LastExt(lines, n - 1)

\* C13 (HEX address mapping). The step of the flasher's decoder that reads a
\* data record stores byte i of the record at image offset
\* (extendedAddress << 16) + recordAddress - baseAddress + i when that offset is
\* in the image, changes no other image byte, and decoding continues.
C13_AddressMapping ==
    [][(input.prog = "flasher" /\ ld.phase = "hex" /\ ld.ln < Len(InputLines)) =>
          \A d \in DataDescs :
              InputLines[ld.ln + 1] = DataRecord(d) =>
                  LET off == LastExt(InputLines, ld.ln) * 65536 + d.addr - baseAddress
                  IN  /\ ld'.phase = "hex"
                      /\ DOMAIN ld'.hex \subseteq 0..(ImageSize - 1)
                      /\ \A o \in 0..(ImageSize - 1) :
                            HexAt(ld'.hex, o, FlasherFill) =
                                IF o >= off /\ o < off + Len(d.data)
                                THEN d.data[o - off + 1]
                                ELSE HexAt(ld.hex, o, FlasherFill)]_vars

\* The flasher has read an end-of-file record among the first n lines.
EofSeen(n) == \E j \in 1..n : InputLines[j] = EofRecord

\* The converter has read an end-of-file record: one lies before its cursor.
ConvEofRead ==
    \E p \in 0..hc.cntcode :
        /\ p + Len(EofRecord) <= hc.cntcode
        /\ SubSeq(input.content, p + 1, p + Len(EofRecord)) = EofRecord

\* C14 (end-of-file record stops decoding). Once a type-01 record has been
\* read, the decoder does not fail and no step of it changes the image or the
\* extended-address accumulator: for the flasher's decoder, and for the
\* converter, which has stopped.
C14_EofStops ==
    /\ [](input.prog = "hex2bin" /\ hc.phase # "init" /\ ConvEofRead => hc.phase = "done")
    /\ [][(input.prog = "flasher" /\ ld.phase = "hex" /\ EofSeen(ld.ln)) =>
              /\ ld'.phase \in {"hex", "loaded"}
              /\ ld'.hex = ld.hex
              /\ ld'.extendedAddress = ld.extendedAddress]_vars

\* The image h holds the bytes bs at the offsets off, off + 1, ...
HoldsAt(h, off, bs, fill) ==
    \A i \in 1..Len(bs) :
        off + i - 1 \in 0..(ImageSize - 1) /\ HexAt(h, off + i - 1, fill) = bs[i]

\* The decoder of the program that runs has come to its end with success.
Decoded ==
    \/ input.prog = "flasher" /\ ld.phase = "loaded" /\ ld.how = "hex"
    \/ input.prog = "hex2bin" /\ hc.phase = "done"

\* The image of the program that runs, and its fill.
DecodedHex == IF input.prog = "flasher" THEN ld.hex ELSE hc.hex
DecodedFill == IF input.prog = "flasher" THEN FlasherFill ELSE ConverterFill

\* C15 (scenario A, as stated). After decoding the three records of scenario
\* A the image holds the 16 data bytes at offset 0xA0000 + 0x0028 - baseAddress.
C15_ScenarioA ==
    (input.content = ScenarioA /\ Decoded) =>
        HoldsAt(DecodedHex, 10 * 65536 + 40 - baseAddress, ScenarioRec.data, DecodedFill)

\* C15 (scenario A, amended). Decoding the three records of scenario A does
\* not fail and stores none of the 16 data bytes: the offset
\* 0xA0000 + 0x0028 - baseAddress is negative, and every byte of the image
\* keeps its fill value.
C15_ScenarioADropped ==
    (input.content = ScenarioA /\ input.ext # "bin") =>
        /\ input.prog = "flasher" => ld.phase \in {"init", "hex", "loaded"} /\ ld.hex = <<>>
        /\ input.prog = "hex2bin" => hc.phase \in {"init", "run", "done"} /\ hc.hex = <<>>
        /\ 10 * 65536 + 40 - baseAddress < 0

\* C15 witness: the flasher has loaded scenario A, three records.
C15_Witness ==
    /\ input.content = ScenarioA
    /\ Decoded
    /\ input.prog = "flasher"
    /\ ld.recordCount = 3

\* C16 (binary load). When the flasher has loaded the input as binary, with the
\* extension .bin or after the HEX decoding of a file of unrecognised
\* extension failed, image[i] is file[i] for every i below the shorter of the
\* file and the image, and the fill 0xFF from the end of the file on.
C16_BinaryLoad ==
    (input.prog = "flasher" /\ ld.phase = "loaded" /\ ld.how = "bin") =>
        \A i \in 0..(ImageSize - 1) :
            HexAt(ld.hex, i, FlasherFill) =
                IF i < Len(input.content) THEN input.content[i + 1] ELSE FlasherFill

\* A record line too short to hold the fixed fields (":LLAAAATT").
IsShort(l) == l # <<>> /\ l[1] = 58 /\ Len(l) < 9

NotShort(l) == ~IsShort(l)

\* The file without its short lines.
StripShort(content) == Join(SelectSeq(ScanLines(content), NotShort))

\* C17 (short lines are skipped, not fatal). When a decoder has come to its
\* end, the image is the one it decodes from the file without its short lines,
\* and it has not failed if it does not fail on that file: for the flasher's
\* decoder on a .hex file and for the converter.
C17_ShortSkipped ==
    /\ (input.prog = "flasher" /\ input.ext = "hex" /\ ld.phase \in {"loaded", "failed"}) =>
            LET r == loadStandardIntelHex(<<>>, StripShort(input.content))
            IN  ld.hex = r.hex /\ (r.ret = "true" => ld.phase = "loaded")
    /\ (input.prog = "hex2bin" /\ hc.phase = "done") =>
            hc.hex = loadAndConvert(StripShort(input.content)).hex

\* A well-formed record: ':', hexadecimal digits only, and as many of them as
\* the length field says (length, address, type, data, checksum).
IsWellFormed(l) ==
    /\ Len(l) >= 11
    /\ l[1] = 58
    /\ \A i \in 2..Len(l) : DigitVal(l[i]) >= 0
    /\ Len(l) = 11 + 2 * ParseInt(SubSeq(l, 2, 3)).v

\* The line l with the checksum byte cs, when it is a well-formed record.
WithChecksum(l, cs) ==
    IF IsWellFormed(l) THEN SubSeq(l, 1, Len(l) - 2) \o Hex2(cs) ELSE l

\* The file with the checksum byte of every well-formed record replaced by cs.
AlterChecksums(content, cs) ==
    LET lines == ScanLines(content)
    IN  Join([i \in 1..Len(lines) |-> WithChecksum(lines[i], cs)])

\* C18 (record checksums do not influence decoding). When the flasher's
\* decoder has come to its end on a .hex file, it returns the same result and
\* leaves the same image on the file whose well-formed records carry another
\* checksum byte.
C18_ChecksumIgnored ==
    (input.prog = "flasher" /\ input.ext = "hex" /\ input.exists
            /\ ld.phase \in {"loaded", "failed", "panic"}) =>
        \A cs \in {0, 90} :
            LET r == loadStandardIntelHex(<<>>, AlterChecksums(input.content, cs))
            IN  r.ret = ld.ret /\ r.hex = ld.hex

\* C18 witness: a file with data records has been loaded, and the file with
\* other checksum bytes differs from it.
C18_Witness ==
    /\ input.prog = "flasher"
    /\ input.ext = "hex"
    /\ ld.phase = "loaded"
    /\ ld.hex # <<>>
    /\ AlterChecksums(input.content, 90) # input.content
    /\ AlterChecksums(input.content, 0) # input.content

\* C11 (checksum law). The last byte of every packet written, data packet or
\* control sequence of the active variant, is the sum of all the bytes before
\* it plus the checksum offset of the variant, modulo 256.
C11_ChecksumLaw ==
    pk.sent # <<>> =>
        pk.sent[Len(pk.sent)] =
            (SumSeq(SubSeq(pk.sent, 1, Len(pk.sent) - 1))
                + Protocol(pk.useIRadio).checksumOffset) % 256

\* C11 witness: a data packet of the variant with offset 82 whose bytes sum to
\* more than 8 bits, at a cursor with a non-zero offset byte.
C11_Witness ==
    /\ pk.kind = "data"
    /\ ~pk.useIRadio
    /\ pk.sent[2] # 0
    /\ SumSeq(SubSeq(pk.sent, 1, Len(pk.sent) - 1)) > 255
    /\ SumSeq(SubSeq(pk.sent, 1, Len(pk.sent) - 1)) % 256 > 255 - 82

\* C19 (SPI read header validation). When Read block of spi-tool returns data,
\* the data is the payload of a block whose first three bytes echo the
\* command.
C19_HeaderValidated ==
    (spi.tool = "spi-tool" /\ spi.phase = "done") =>
        /\ spi.data = payloadOf(spi.block)
        /\ SubSeq(spi.block, 1, 3) = SubSeq(spi.command, 1, 3)

\* The first response had the header of the command and a wrong checksum, and
\* no read or write failed.
HeaderOnly ==
    /\ spi.phase \in {"done", "error"}
    /\ spi.err # "io"
    /\ spi.first # <<>>
    /\ SubSeq(spi.first, 1, 3) = SubSeq(spi.command, 1, 3)
    /\ spi.first[BlockLen] # SumSeq(SubSeq(spi.first, 1, BlockLen - 1)) % 256

\* C20 (scenario C, accept on header match). In either tool, a first response
\* with the header of the command and a wrong checksum byte is followed by
\* exactly one more read, and when the checksum of the block is still wrong
\* after it the read returns the data of the block.
C20_AcceptOnHeader ==
    HeaderOnly =>
        /\ spi.reads = 2
        /\ spi.block[BlockLen] # SumSeq(SubSeq(spi.block, 1, BlockLen - 1)) % 256 =>
              spi.phase = "done" /\ spi.data = payloadOf(spi.block)

\* C28 (per-block retry ceiling). Whatever the device sends and whenever the
\* timeout strikes, the block written last has been put on the wire at most
\* 1 + maxRetries times in a row: the session is aborted instead of writing it
\* a fifth time.
C28_RetryCeiling == nRetx <= maxRetries

\* A step of the reader goroutine: a turn of its loop, or the Close after the
\* end sequence.
ReaderStep == ev' \in ({<<"timeout", 0>>, <<"readerr", 0>>} \cup {<<"rx", b>> : b \in DeviceBytes})

\* C30 (reader cancellation). Once the port is closed the reader takes no
\* further turn of its loop: no read on the closed port, no timeout check, no
\* change of the session state.
C30_ReaderStops == [][f.port = "closed" => ~ReaderStep]_vars

\* The process has ended: main returned (status 0), left through log.Fatal
\* (status 1), or panicked.
Exited == pc \in {"exit0", "exit1", "crash"}

\* C27 (failure is reported). Every session ends; startUpdate returns nil only
\* when the session is complete (step 5), and an aborted session (port closed,
\* step 0) makes it return an error, so that main exits with status 1.
C27_FailureReported ==
    /\ [](pc = "exit0" => f.step = 5)
    /\ [](Aborted => <>(pc = "exit1"))
    /\ <>Exited

\* The cursor the data packet written last was built at, and its offset field.
PacketCursor == pk.sendcnt - BlockSize
OffsetField == pk.sent[2] * 256 + pk.sent[3]

\* C29 (offset field). Every data packet is 0x57, the cursor as a big-endian
\* 16-bit value, the image bytes at the cursor and the checksum; the offset
\* field equals the cursor, so no two blocks share an offset field.
C29_OffsetIsCursor ==
    pk.kind = "data" =>
        /\ pk.sent[1] = DataCmd
        /\ OffsetField = PacketCursor
        /\ SubSeq(pk.sent, 4, Len(pk.sent) - 1) = pk.hexBytes

\* C29 as amended: the offset field holds the low 16 bits of the cursor.
C29_OffsetLow16 ==
    pk.kind = "data" =>
        /\ pk.sent[1] = DataCmd
        /\ OffsetField = PacketCursor % 65536
        /\ SubSeq(pk.sent, 4, Len(pk.sent) - 1) = pk.hexBytes

\* C29 witness: the packet of the block at 65536 + 1024 carries the offset
\* field of the block at 1024.
C29_Witness ==
    /\ pk.kind = "data"
    /\ PacketCursor = 65536 + BlockSize
    /\ OffsetField = BlockSize
    /\ pk.hexBytes # <<>>

\* C21 (SPI write block). Write block rejects data that is not of the block
\* length before it writes anything; otherwise it writes one command, 0x57,
\* the block number high and low, the data, and the sum of all these bytes
\* modulo 256, and it succeeds exactly when the first response byte is 0x06:
\* another byte, the deadline and an I/O error all make it fail.
C21_WriteBlock ==
    spi.phase \in {"wdone", "werror"} =>
        /\ Len(spi.data) # PayloadLen => spi.phase = "werror" /\ spi.command = <<>>
        /\ spi.command # <<>> =>
              /\ Len(spi.command) = PayloadLen + 4
              /\ SubSeq(spi.command, 1, 3) =
                    <<87, (spi.blockNum \div 256) % 256, spi.blockNum % 256>>
              /\ SubSeq(spi.command, 4, PayloadLen + 3) = spi.data
              /\ spi.command[PayloadLen + 4] = SumSeq(SubSeq(spi.command, 1, PayloadLen + 3)) % 256
        /\ spi.phase = "wdone" <=> (spi.command # <<>> /\ spi.block = <<6>>)
        /\ Len(spi.data) = PayloadLen /\ spi.err # "io" => spi.command # <<>>

\* C21 witness: block 258 was written with data whose sum does not fit a
\* byte, and the device answered 0x06.
C21_Witness ==
    /\ spi.phase = "wdone"
    /\ spi.blockNum = 258
    /\ SumSeq(spi.data) > 255
    /\ spi.block = <<6>>

\* The block number a command carries, the block numbers of the commands
\* handed to the port so far, and how many of them name block b.
BlockOf(command) == command[2] * 256 + command[3]
SentBlocks == [i \in 1..Len(job.sent) |-> BlockOf(job.sent[i])]
Attempts(b) == Cardinality({i \in 1..Len(job.sent) : BlockOf(job.sent[i]) = b})

\* C22 (backup retries). A backup issues at most 3 read attempts for a block,
\* in block order; the third failure for a block ends the backup with an
\* error and no later block is read; an attempt that succeeds appends the
\* data it returned to the file, once, and the backup moves to the next
\* block.
C22_BackupRetries ==
    /\ [](job.cmd = "backup" =>
            /\ \A b \in 0..JobBlocks : Attempts(b) <= 3
            /\ \A i \in 1..Len(job.sent) : SentBlocks[i] <= job.block
            /\ \A i \in 1..(Len(job.sent) - 1) : SentBlocks[i] <= SentBlocks[i + 1]
            /\ (job.phase = "loop" => Attempts(job.block) = job.retries /\ job.retries < 3)
            /\ (job.ret = "read" => Attempts(job.block) = 3 /\ ~job.last.ok)
            /\ (~job.last.ok /\ Attempts(job.block) = 3 => job.ret = "read")
            /\ (job.ret # "file" => Len(job.file) = job.block * PayloadLen))
    /\ [][(job.cmd = "backup" /\ Len(job'.sent) > Len(job.sent) /\ job'.last.ok /\ job'.ret # "file") =>
             /\ job'.file = job.file \o job'.last.data
             /\ Len(job'.last.data) = PayloadLen
             /\ job'.block = job.block + 1]_vars

\* C22 witness: the first block was read at the third attempt, the second
\* failed three times, and the backup returned the error.
C22_Witness ==
    /\ job.cmd = "backup"
    /\ job.ret = "read"
    /\ job.block = 1
    /\ SentBlocks = <<0, 0, 0, 1, 1, 1>>
    /\ Len(job.file) = PayloadLen

\* C23 (backup completeness). A backup in which no attempt fails hands one
\* read command per block to the port, for the blocks 0, 1, 2, ... in this
\* order, its file has the length of the flash, and the data returned for
\* block i is chunk i of the file.
C23_BackupComplete ==
    /\ [](job.cmd = "backup" /\ job.ret = "none" /\ job.phase \in {"returned", "exited"}
             /\ Len(job.sent) = job.block =>
            /\ SentBlocks = [i \in 1..JobBlocks |-> i - 1]
            /\ Len(job.file) = SPI_FLASH_SIZE)
    /\ [][(job.cmd = "backup" /\ Len(job'.sent) > Len(job.sent) /\ job'.last.ok /\ job'.ret # "file") =>
             /\ BlockOf(job'.sent[Len(job'.sent)]) = job.block
             /\ SubSeq(job'.file, job.block * PayloadLen + 1, (job.block + 1) * PayloadLen)
                  = job'.last.data]_vars

\* C23 witness: a backup of either tool has ended without a failed attempt,
\* and its file holds the flash of the device.
C23_Witness ==
    /\ job.cmd = "backup"
    /\ job.phase = "exited"
    /\ job.ret = "none"
    /\ Len(job.sent) = JobBlocks
    /\ job.file = [i \in 1..SPI_FLASH_SIZE |-> i % 256]

\* C24 (restore size validation). A restore of a file whose size is not the
\* flash size returns an error and hands no write command to the port.
C24_RestoreSize ==
    (job.cmd = "restore" /\ Len(job.src) # JobBlocks * PayloadLen
       /\ job.phase \in {"loop", "returned", "exited"} /\ job.ret # "connect") =>
        /\ job.phase \in {"returned", "exited"}
        /\ job.ret \in {"size", "file"}
        /\ job.sent = <<>>

\* C24 witness: a file one byte short of the flash size was rejected.
C24_Witness ==
    /\ job.cmd = "restore"
    /\ Len(job.src) = JobBlocks * PayloadLen - 1
    /\ job.ret = "size"
    /\ job.phase = "exited"
    /\ job.sent = <<>>

\* C25 (restore aborts on write failure). A restore hands the write commands
\* of the blocks 0, 1, 2, ... to the port in this order, one per block, each
\* with the chunk of the file at the block; when Write block fails the
\* restore returns an error and no command for a later block is issued.
C25_RestoreAborts ==
    job.cmd = "restore" =>
        /\ SentBlocks = [i \in 1..Len(job.sent) |-> i - 1]
        /\ \A i \in 1..Len(job.sent) :
              SubSeq(job.sent[i], 4, PayloadLen + 3)
                = SubSeq(job.src, (i - 1) * PayloadLen + 1, i * PayloadLen)
        /\ (~job.last.ok =>
              /\ job.phase \in {"returned", "exited"}
              /\ job.ret = "write"
              /\ Len(job.sent) = job.block + 1)
        /\ (job.ret = "write" => ~job.last.ok)

\* C25 witness: the write of the second block failed and the restore has
\* ended with two commands issued.
C25_Witness ==
    /\ job.cmd = "restore"
    /\ job.ret = "write"
    /\ job.block = 1
    /\ Len(job.sent) = 2
    /\ job.phase = "exited"

\* C26 (port released on every exit path). When a run of an SPI tool has
\* ended, with success or with any failure, the port it opened is closed.
C26_PortReleased == job.phase = "exited" => job.port # "open"

\* A step of the foreground flow after the reader was started.
FgStep == pc # "open" /\ ev' = <<"fg", 0>>

C32_PresenceOnly ==
    f.port = "open" =>
        LET r == readData(Run(f), PRESENCE)
        IN  /\ r.f.step = f.step
            /\ r.f.sendcnt = f.sendcnt
            /\ r.f.retryCount = f.retryCount
            /\ View(readData(Run(r.f), ACK)) = View(readData(Run(f), ACK))

\* C33 (cursor invariant). The cursor is a multiple of the block size between
\* 0 and the image size, the progress counter is the cursor in blocks, and no
\* data packet is built from bytes outside the image (the read would panic).
C33_CursorInvariant ==
    /\ f.sendcnt % BlockSize = 0
    /\ 0 <= f.sendcnt /\ f.sendcnt <= ImageSize
    /\ f.gWritebytes = f.sendcnt \div BlockSize
    /\ pc # "crash"

\* The offsets of the blocks of the image.
BlockOffsets == {k * BlockSize : k \in 0..(NumBlocks - 1)}

\* The two offset bytes of a data packet, read as the device reads them.
FieldOf(p) == p.b1 * 256 + p.b2

Completed == "end" \in wrote

\* C36 (terminal states are absorbing). Once the session is Completed or
\* Aborted, no received byte, timeout or other step of the reader changes
\* step, cursor or retry counter or writes to the port, and a closed port
\* stays closed.
C36_TerminalAbsorbing ==
    [][((Completed \/ Aborted) /\ ev'[1] # "fg") =>
          /\ f'.step = f.step
          /\ f'.sendcnt = f.sendcnt
          /\ f'.retryCount = f.retryCount
          /\ tx' = <<>>
          /\ (f.port = "closed" => f'.port = "closed")]_vars

\* C35 (restore success means all blocks written). When restore has returned
\* success, a write command was sent for every block 0 .. blockCount-1 and
\* the last of them, like the others before it, was acknowledged.
C35_RestoreSuccess ==
    (job.cmd = "restore" /\ job.phase \in {"returned", "exited"} /\ job.ret = "none") =>
        /\ SentBlocks = [i \in 1..JobBlocks |-> i - 1]
        /\ job.last.ok

\* C38 (backup file is a block prefix). At every point of a backup, also
\* after it failed, the file consists of the payloads returned for the blocks
\* 0 .. n-1, in this order and each once, where n is the number of blocks
\* read successfully so far, whatever attempts failed before (a block whose
\* write to the file failed ended the backup and is not in the file).
C38_BlockPrefix ==
    job.cmd = "backup" =>
        /\ \A i \in 1..Len(job.got) : job.got[i].block = i - 1
        /\ Len(job.got) \in {job.block, job.block + 1}
        /\ (Len(job.got) = job.block + 1 => job.ret = "file")
        /\ Len(job.file) = job.block * PayloadLen
        /\ \A i \in 1..job.block :
              SubSeq(job.file, (i - 1) * PayloadLen + 1, i * PayloadLen) = job.got[i].data

\* C38 witness: a backup failed at the third block after the first block
\* needed a second attempt; its file holds the first two blocks.
C38_Witness ==
    /\ job.cmd = "backup"
    /\ job.phase = "exited"
    /\ job.ret = "read"
    /\ Attempts(0) = 2
    /\ job.block = 2
    /\ Len(job.file) = 2 * PayloadLen

\* The type field of a well-formed record.
TypeOf(l) == ParseInt(SubSeq(l, 8, 9)).v

\* A well-formed Intel HEX file whose extended-linear-address records are
\* 0x0800, 0x0801, ... in this order: data, extended-address and end-of-file
\* records only, at least one extended-address record, and the end-of-file
\* record once, as the last line.
OrderedHex(content) ==
    LET lines == ScanLines(content)
        n == Len(lines)
    IN  /\ n > 0
        /\ \A i \in 1..n : IsWellFormed(lines[i]) /\ TypeOf(lines[i]) \in {0, 1, 4}
        /\ \A i \in 1..n : TypeOf(lines[i]) = 1 <=> i = n
        /\ \E i \in 1..n : TypeOf(lines[i]) = 4
        /\ \A i \in 1..n :
              TypeOf(lines[i]) = 4 =>
                 /\ Len(lines[i]) = 15
                 /\ ParseInt(SubSeq(lines[i], 10, 13)).v
                      = ImageExt + Cardinality({j \in 1..(i - 1) : TypeOf(lines[j]) = 4})

\* The image of the flasher after initializeHex on the binary file the
\* converter wrote, and the decoding of the same input by the flasher itself.
ViaConverter == loadBinaryFirmware(<<>>, ConvertedFile(hc))
Direct == loadStandardIntelHex(<<>>, input.content)

\* The converter has written its output for an input of the claim's kind.
Converted == input.prog = "hex2bin" /\ hc.phase = "done" /\ OrderedHex(input.content)

\* C37 as stated (converter agrees with the programmer). The binary written
\* by hex2bin, loaded into the programmer, gives the same image as loading
\* the HEX input into the programmer directly.
C37_SameImage ==
    Converted =>
        LET v == ViaConverter
            d == Direct
        IN  /\ d.ret = "true"
            /\ \A i \in 0..(ImageSize - 1) :
                  HexAt(v, i, FlasherFill) = HexAt(d.hex, i, FlasherFill)

====
